---- MODULE Spec2Model ----
(***************************************************************************)
(* Model of the finflow-ghana-dollar backend: the tables, row-level        *)
(* security policies and triggers of the Supabase migration, as driven by  *)
(* the client pages.                                                       *)
(*                                                                         *)
(* A table is the set of its rows; a row is a record of the columns the    *)
(* policies, constraints and triggers read or write.  A statement is one   *)
(* action: row-level security, constraints, the write, cascades and        *)
(* triggers together, as PostgreSQL runs them inside the statement.  The   *)
(* outcome the caller receives is kept in lastOp.                          *)
(*                                                                         *)
(* Numbers: a DECIMAL(p,2) column holds an integer number of cents; an     *)
(* input is given in tenths of a cent and is rounded to the column's scale *)
(* on assignment.  The model reduces the precision p = 15 of the schema to *)
(* NumericDigits so that the largest storable value is reachable.          *)
(***************************************************************************)
EXTENDS Integers, FiniteSets, Sequences, TLC

\* ------------------------------------------------------------------ bounds
MaxTxns == 2
\* savings transactions, committed or in flight, of the concurrent sessions
MaxConcTxns == 3
MaxRecords == 1
NumericDigits == 3
\* calls under way when the income page accepts a submit or a delete
MaxRequests == 1

\* ------------------------------------------------------------------ values
NULL == "null"
Users == {"u1", "u2"}
GoalIds == {"g1", "g2"}
TxnName == <<"t1", "t2", "t3", "t4">>
TxnIds == {TxnName[i] : i \in 1..MaxTxns}
RecName == <<"r1", "r2", "r3">>
RecordIds == {RecName[i] : i \in 1..MaxRecords}
Names == {"a", "b"}

RECURSIVE Pow10(_)
Pow10(n) == IF n = 0 THEN 1 ELSE 10 * Pow10(n - 1)
\* largest absolute value, in cents, of a DECIMAL(NumericDigits,2) column
NumericMax == Pow10(NumericDigits) - 1

Abs(x) == IF x < 0 THEN -x ELSE x
\* assignment to a scale-2 numeric column: round half away from zero
RoundNumeric(m) == IF m < 0 THEN -((-m + 5) \div 10) ELSE (m + 5) \div 10
\* "numeric field overflow" is raised when the rounded value needs more digits
FitsNumeric(c) == Abs(c) <= NumericMax

\* amounts a caller may send, in tenths of a cent: a negative one, one that
\* is rounded, the largest the column holds and the first it does not hold
AmountInputs == {-10, 5, 10 * NumericMax, 10 * (NumericMax + 1)}
TransactionTypeInputs == {"deposit", "withdrawal"}
\* values a caller may send for savings_goals.current_amount
CurrentAmountInputs == {0, 30}
\* amounts a record is updated to (tenths of a cent)
RecordAmountInputs == {70}

\* ------------------------------------------------------------------ callers
\* A caller is the JWT subject auth.uid() (NULL for the anonymous key) and
\* whether its database role bypasses row-level security (the table owner or
\* the service role: the tables ENABLE, not FORCE, row-level security).
Callers == [uid : Users \cup {NULL}, bypassrls : {FALSE}]
             \cup {[uid |-> NULL, bypassrls |-> TRUE]}
OrdinaryCallers == {c \in Callers : ~c.bypassrls}

\* SQL equality: NULL = x is not true
SqlEq(a, b) == a # NULL /\ b # NULL /\ a = b

VARIABLES savings_goals, savings_transactions, income_records,
          expense_records, expense_categories, lastOp, tx, rowLock,
          auth_users, profiles, currency_rates,
          auth, location, view, page, requests

\* the committed contents of the tables
\* the identities, their profiles and the currency rates
identityVars == <<auth_users, profiles, currency_rates>>
dbVars == <<savings_goals, savings_transactions, income_records,
            expense_records, expense_categories, identityVars>>
\* the browser: the authentication context, the router's location, what is
\* rendered, the state of the income page and its calls under way
clientVars == <<auth, location, view, page, requests>>
\* the open transactions of the database sessions and the row locks they
\* hold; a statement sent to the database leaves the browser alone
sessionVars == <<tx, rowLock, clientVars>>
\* what a statement on the savings tables leaves alone
outsideSavings == <<income_records, expense_records, expense_categories,
                    tx, rowLock, identityVars, clientVars>>
vars == <<savings_goals, savings_transactions, income_records,
          expense_records, expense_categories, lastOp, tx, rowLock,
          auth_users, profiles, currency_rates, auth, location, view, page,
          requests>>

Ids(table) == {r.id : r \in table}

\* The last statement and its result, as the caller receives it: who issued
\* it, the table and the operation, the key it named (arg: the id in the
\* filter of a SELECT, UPDATE or DELETE; the owner sent with an INSERT, or
\* the goal a new savings transaction refers to), the error or "ok", and the
\* ids of the rows returned or affected.
Result(caller, table, op, arg, status, rows) ==
  [uid |-> caller.uid, bypassrls |-> caller.bypassrls, table |-> table,
   op |-> op, arg |-> arg, status |-> status, rows |-> rows]

\* ------------------------------------------------------------------ policies
\* savings_goals
\* mutant: a SELECT policy on savings_goals that does not look at the owner
SavingsGoalsSelectUsing_Any(caller, row) == TRUE
SavingsGoalsSelectUsing(caller, row) == SqlEq(caller.uid, row.user_id)
SavingsGoalsInsertCheck(caller, row) == SqlEq(caller.uid, row.user_id)
SavingsGoalsUpdateUsing(caller, row) == SqlEq(caller.uid, row.user_id)
SavingsGoalsDeleteUsing(caller, row) == SqlEq(caller.uid, row.user_id)

\* mutant: the policy forgets to tie the goal to the row (id = savings_goal_id)
SavingsTransactionsInsertCheck_AnyGoal(caller, row, goals) ==
  \E g \in goals : /\ SavingsGoalsSelectUsing(caller, g)
                   /\ SqlEq(g.user_id, caller.uid)
\* mutant: a DELETE policy scoped to the ownership of the goal
SavingsTransactionsDeleteUsing_Owner(caller, row, goals) ==
  \E g \in goals : /\ g.id = row.savings_goal_id
                   /\ SqlEq(g.user_id, caller.uid)

\* savings_transactions: EXISTS (SELECT 1 FROM savings_goals WHERE id =
\* savings_goal_id AND user_id = auth.uid()); the sub-select is itself subject
\* to the caller's SELECT policy on savings_goals
SavingsTransactionsSelectUsing(caller, row, goals) ==
  \E g \in goals : /\ SavingsGoalsSelectUsing(caller, g)
                   /\ g.id = row.savings_goal_id
                   /\ SqlEq(g.user_id, caller.uid)
SavingsTransactionsInsertCheck(caller, row, goals) ==
  \E g \in goals : /\ SavingsGoalsSelectUsing(caller, g)
                   /\ g.id = row.savings_goal_id
                   /\ SqlEq(g.user_id, caller.uid)
\* no UPDATE and no DELETE policy exists on savings_transactions: with
\* row-level security enabled the default is to deny
SavingsTransactionsUpdateUsing(caller, row, goals) == FALSE
SavingsTransactionsDeleteUsing(caller, row, goals) == FALSE

\* a policy applies unless the caller's role bypasses row-level security
Allowed(caller, policy) == caller.bypassrls \/ policy

\* ------------------------------------------------------------------ trigger
\* mutant: the adjustment of an insertion ignores the transaction type
NewAdjustment_IgnoresType(new) == new.amount
\* mutant: the adjustment of a removal ignores the transaction type
OldAdjustment_IgnoresType(old) == old.amount

\* CASE WHEN NEW.transaction_type = 'deposit' THEN NEW.amount ELSE -NEW.amount END
NewAdjustment(new) ==
  IF new.transaction_type = "deposit" THEN new.amount ELSE -new.amount
\* CASE WHEN OLD.transaction_type = 'deposit' THEN OLD.amount ELSE -OLD.amount END
OldAdjustment(old) ==
  IF old.transaction_type = "deposit" THEN old.amount ELSE -old.amount

\* The rows of savings_goals an UPDATE ... WHERE id = gid issued by caller
\* reaches: the row must pass the caller's UPDATE policy (and, since the
\* statement reads columns, the SELECT policy).
GoalsUpdatable(caller, goals, gid) ==
  {g \in goals : /\ g.id = gid
                 /\ Allowed(caller, /\ SavingsGoalsSelectUsing(caller, g)
                                    /\ SavingsGoalsUpdateUsing(caller, g))}

\* mutant: the trigger function without its DELETE branch
update_savings_goal_amount_InsertOnly(tg_op, caller, row, goals) ==
  IF tg_op = "INSERT"
    THEN {IF g \in GoalsUpdatable(caller, goals, row.savings_goal_id)
            THEN [g EXCEPT !.current_amount = @ + NewAdjustment(row)]
            ELSE g : g \in goals}
  ELSE goals

\* update_savings_goal_amount(): the function is SECURITY INVOKER, so its
\* UPDATE runs with the rights of the caller of the firing statement.
update_savings_goal_amount(tg_op, caller, row, goals) ==
  IF tg_op = "INSERT"
    THEN {IF g \in GoalsUpdatable(caller, goals, row.savings_goal_id)
            THEN [g EXCEPT !.current_amount = @ + NewAdjustment(row)]
            ELSE g : g \in goals}
  ELSE IF tg_op = "DELETE"
    THEN {IF g \in GoalsUpdatable(caller, goals, row.savings_goal_id)
            THEN [g EXCEPT !.current_amount = @ - OldAdjustment(row)]
            ELSE g : g \in goals}
  ELSE goals

\* the AFTER DELETE row trigger, once for each row of a multi-row delete
RECURSIVE DeleteTriggers(_, _, _)
DeleteTriggers(caller, rows, goals) ==
  IF rows = {} THEN goals
  ELSE LET r == CHOOSE x \in rows : TRUE
       IN DeleteTriggers(caller, rows \ {r},
                         update_savings_goal_amount("DELETE", caller, r, goals))

\* mutant: savings_goals with CHECK (current_amount >= 0)
GoalsFit_NotNegative(goals) ==
  \A g \in goals : FitsNumeric(g.current_amount) /\ g.current_amount >= 0
GoalsFit(goals) == \A g \in goals : FitsNumeric(g.current_amount)

\* ------------------------------------------------------------------ savings_transactions
TransactionRow(id, gid, amount, type) ==
  [id |-> id, savings_goal_id |-> gid, amount |-> RoundNumeric(amount),
   transaction_type |-> type]

\* INSERT INTO savings_transactions: the outcome, in the order PostgreSQL
\* decides it
InsertRowStatus(caller, row, goals, txns) ==
  IF ~FitsNumeric(row.amount) THEN "numeric_overflow"
  ELSE IF ~Allowed(caller, SavingsTransactionsInsertCheck(caller, row, goals))
    THEN "rls_violation"
  ELSE IF row.transaction_type \notin {"deposit", "withdrawal"}
    THEN "check_violation"
  ELSE IF row.id \in Ids(txns) THEN "unique_violation"
  ELSE IF row.savings_goal_id \notin Ids(goals) THEN "foreign_key_violation"
  ELSE "ok"
\* ... and of the AFTER INSERT trigger, whose error fails the statement
InsertTransactionStatus(caller, row, goals, txns) ==
  IF InsertRowStatus(caller, row, goals, txns) # "ok"
    THEN InsertRowStatus(caller, row, goals, txns)
  ELSE IF ~GoalsFit(update_savings_goal_amount("INSERT", caller, row, goals))
    THEN "numeric_overflow"
  ELSE "ok"

InsertTransaction(caller, id, gid, amount, type) ==
  LET row == TransactionRow(id, gid, amount, type)
      status == InsertTransactionStatus(caller, row, savings_goals,
                                        savings_transactions)
  IN /\ IF status = "ok"
          THEN /\ savings_transactions' = savings_transactions \cup {row}
               /\ savings_goals' =
                    update_savings_goal_amount("INSERT", caller, row, savings_goals)
          ELSE UNCHANGED <<savings_goals, savings_transactions>>
     /\ lastOp' = Result(caller, "savings_transactions", "INSERT", gid, status,
                         IF status = "ok" THEN {id} ELSE {})
     /\ UNCHANGED outsideSavings

\* rows of savings_transactions a caller's UPDATE / DELETE / SELECT with
\* .eq('id', id) reaches
TransactionsUpdatable(caller, id, goals, txns) ==
  {r \in txns : /\ r.id = id
                /\ Allowed(caller,
                     /\ SavingsTransactionsSelectUsing(caller, r, goals)
                     /\ SavingsTransactionsUpdateUsing(caller, r, goals))}
TransactionsDeletable(caller, id, goals, txns) ==
  {r \in txns : /\ r.id = id
                /\ Allowed(caller,
                     /\ SavingsTransactionsSelectUsing(caller, r, goals)
                     /\ SavingsTransactionsDeleteUsing(caller, r, goals))}
TransactionsVisible(caller, goals, txns) ==
  {r \in txns : Allowed(caller, SavingsTransactionsSelectUsing(caller, r, goals))}

\* columns an UPDATE of savings_transactions may assign
TransactionPatches ==
  {[col |-> "amount", amount |-> a, transaction_type |-> "deposit",
    savings_goal_id |-> "g1"] : a \in AmountInputs}
  \cup {[col |-> "transaction_type", amount |-> 0, transaction_type |-> t,
         savings_goal_id |-> "g1"] : t \in TransactionTypeInputs}
  \cup {[col |-> "savings_goal_id", amount |-> 0, transaction_type |-> "deposit",
         savings_goal_id |-> g] : g \in GoalIds}
PatchTransaction(r, p) ==
  IF p.col = "amount" THEN [r EXCEPT !.amount = RoundNumeric(p.amount)]
  ELSE IF p.col = "transaction_type"
    THEN [r EXCEPT !.transaction_type = p.transaction_type]
  ELSE [r EXCEPT !.savings_goal_id = p.savings_goal_id]

\* UPDATE savings_transactions SET col = v WHERE id = id.  No trigger fires
\* on UPDATE of this table.
UpdateTransaction(caller, id, p) ==
  LET old == TransactionsUpdatable(caller, id, savings_goals, savings_transactions)
      new == {PatchTransaction(r, p) : r \in old}
      status ==
        IF \E r \in new : ~FitsNumeric(r.amount) THEN "numeric_overflow"
        ELSE IF \E r \in new : r.transaction_type \notin {"deposit", "withdrawal"}
          THEN "check_violation"
        ELSE IF \E r \in new : r.savings_goal_id \notin Ids(savings_goals)
          THEN "foreign_key_violation"
        ELSE "ok"
  IN /\ savings_transactions' =
          IF status = "ok" THEN (savings_transactions \ old) \cup new
          ELSE savings_transactions
     /\ lastOp' = Result(caller, "savings_transactions", "UPDATE", id, status,
                         IF status = "ok" THEN Ids(old) ELSE {})
     /\ UNCHANGED <<savings_goals, outsideSavings>>

\* DELETE FROM savings_transactions WHERE id = id, with the AFTER DELETE
\* trigger
DeleteTransaction(caller, id) ==
  LET old == TransactionsDeletable(caller, id, savings_goals, savings_transactions)
      goals == DeleteTriggers(caller, old, savings_goals)
      status == IF GoalsFit(goals) THEN "ok" ELSE "numeric_overflow"
  IN /\ IF status = "ok"
          THEN /\ savings_transactions' = savings_transactions \ old
               /\ savings_goals' = goals
          ELSE UNCHANGED <<savings_goals, savings_transactions>>
     /\ lastOp' = Result(caller, "savings_transactions", "DELETE", id, status,
                         IF status = "ok" THEN Ids(old) ELSE {})
     /\ UNCHANGED outsideSavings

\* SELECT * FROM savings_transactions WHERE id = id
SelectTransaction(caller, id) ==
  /\ lastOp' = Result(caller, "savings_transactions", "SELECT", id, "ok",
                      Ids({r \in TransactionsVisible(caller, savings_goals,
                                                     savings_transactions) :
                             r.id = id}))
  /\ UNCHANGED <<dbVars, sessionVars>>

\* ------------------------------------------------------------------ savings_goals
GoalRow(id, user_id, name, current_amount) ==
  [id |-> id, user_id |-> user_id, name |-> name,
   current_amount |-> RoundNumeric(current_amount)]

\* current_amount DECIMAL(15,2) NOT NULL DEFAULT 0
DefaultCurrentAmount == 0

InsertGoalStatus(caller, row, goals) ==
  IF ~FitsNumeric(row.current_amount) THEN "numeric_overflow"
  ELSE IF ~Allowed(caller, SavingsGoalsInsertCheck(caller, row))
    THEN "rls_violation"
  ELSE IF row.id \in Ids(goals) THEN "unique_violation"
  ELSE "ok"

\* INSERT INTO savings_goals (..., current_amount) VALUES (...)
InsertGoal(caller, id, user_id, name, current_amount) ==
  LET row == GoalRow(id, user_id, name, current_amount)
      status == InsertGoalStatus(caller, row, savings_goals)
  IN /\ savings_goals' = IF status = "ok" THEN savings_goals \cup {row}
                         ELSE savings_goals
     /\ lastOp' = Result(caller, "savings_goals", "INSERT", user_id, status,
                         IF status = "ok" THEN {id} ELSE {})
     /\ UNCHANGED <<savings_transactions, outsideSavings>>

GoalsDeletable(caller, goals, gid) ==
  {g \in goals : /\ g.id = gid
                 /\ Allowed(caller, /\ SavingsGoalsSelectUsing(caller, g)
                                    /\ SavingsGoalsDeleteUsing(caller, g))}
GoalsVisible(caller, goals) ==
  {g \in goals : Allowed(caller, SavingsGoalsSelectUsing(caller, g))}

\* columns an UPDATE of savings_goals may assign (Update type of types.ts)
GoalPatches ==
  {[col |-> "name", name |-> n, current_amount |-> 0, user_id |-> "u1"] :
     n \in Names}
  \cup {[col |-> "current_amount", name |-> "a", current_amount |-> c,
         user_id |-> "u1"] : c \in CurrentAmountInputs}
  \cup {[col |-> "user_id", name |-> "a", current_amount |-> 0, user_id |-> u] :
          u \in Users}
\* the patches that leave the derived column to the trigger
LedgerGoalPatches == {p \in GoalPatches : p.col # "current_amount"}
PatchGoal(g, p) ==
  IF p.col = "name" THEN [g EXCEPT !.name = p.name]
  ELSE IF p.col = "current_amount"
    THEN [g EXCEPT !.current_amount = RoundNumeric(p.current_amount)]
  ELSE [g EXCEPT !.user_id = p.user_id]

\* mutant: the USING expression of the UPDATE policy is not applied to the
\* new row
UpdateGoalStatus_OldRowOnly(caller, new) ==
  IF \E g \in new : ~FitsNumeric(g.current_amount) THEN "numeric_overflow"
  ELSE "ok"

\* UPDATE savings_goals SET col = v WHERE id = gid.  An UPDATE policy given
\* only USING applies the same expression to the new row (WITH CHECK).
UpdateGoalStatus(caller, new) ==
  IF \E g \in new : ~FitsNumeric(g.current_amount) THEN "numeric_overflow"
  ELSE IF \E g \in new : ~Allowed(caller, /\ SavingsGoalsSelectUsing(caller, g)
                                          /\ SavingsGoalsUpdateUsing(caller, g))
    THEN "rls_violation"
  ELSE "ok"

UpdateGoal(caller, gid, p) ==
  LET old == GoalsUpdatable(caller, savings_goals, gid)
      new == {PatchGoal(g, p) : g \in old}
      status == UpdateGoalStatus(caller, new)
  IN /\ savings_goals' = IF status = "ok" THEN (savings_goals \ old) \cup new
                         ELSE savings_goals
     /\ lastOp' = Result(caller, "savings_goals", "UPDATE", gid, status,
                         IF status = "ok" THEN Ids(old) ELSE {})
     /\ UNCHANGED <<savings_transactions, outsideSavings>>

\* mutant: savings_goal_id without ON DELETE CASCADE taking the rows along
CascadeTransactions_None(gids, txns) == {}
\* savings_goal_id ... REFERENCES savings_goals(id) ON DELETE CASCADE: the
\* referential action removes the goal's transactions whatever the caller's
\* policies are
CascadeTransactions(gids, txns) == {r \in txns : r.savings_goal_id \in gids}

\* DELETE FROM savings_goals WHERE id = gid: the goal rows go, the cascade
\* removes their transactions, and the AFTER DELETE trigger runs for each
\* removed transaction against what is left of savings_goals
DeleteGoal(caller, gid) ==
  LET old == GoalsDeletable(caller, savings_goals, gid)
      gone == CascadeTransactions(Ids(old), savings_transactions)
      goals == DeleteTriggers(caller, gone, savings_goals \ old)
      status == IF GoalsFit(goals) THEN "ok" ELSE "numeric_overflow"
  IN /\ IF status = "ok"
          THEN /\ savings_goals' = goals
               /\ savings_transactions' = savings_transactions \ gone
          ELSE UNCHANGED <<savings_goals, savings_transactions>>
     /\ lastOp' = Result(caller, "savings_goals", "DELETE", gid, status,
                         IF status = "ok" THEN Ids(old) ELSE {})
     /\ UNCHANGED outsideSavings

\* supabase.from('savings_goals').select('*').eq('user_id', user_id)
SelectGoal(caller, user_id) ==
  /\ lastOp' = Result(caller, "savings_goals", "SELECT", user_id, "ok",
                      Ids({g \in GoalsVisible(caller, savings_goals) :
                             SqlEq(g.user_id, user_id)}))
  /\ UNCHANGED <<dbVars, sessionVars>>

\* ------------------------------------------------------------------ income_records, expense_records
\* what a statement on income_records or expense_records leaves alone
outsideRecords == <<savings_goals, savings_transactions, expense_categories,
                    tx, rowLock, identityVars, clientVars>>

\* mutant: a SELECT policy that does not look at the owner
IncomeRecordsSelectUsing_Any(caller, row) == TRUE
\* mutant: an INSERT policy that does not look at the owner
ExpenseRecordsInsertCheck_Any(caller, row) == TRUE

IncomeRecordsSelectUsing(caller, row) == SqlEq(caller.uid, row.user_id)
IncomeRecordsInsertCheck(caller, row) == SqlEq(caller.uid, row.user_id)
IncomeRecordsUpdateUsing(caller, row) == SqlEq(caller.uid, row.user_id)
IncomeRecordsDeleteUsing(caller, row) == SqlEq(caller.uid, row.user_id)
ExpenseRecordsSelectUsing(caller, row) == SqlEq(caller.uid, row.user_id)
ExpenseRecordsInsertCheck(caller, row) == SqlEq(caller.uid, row.user_id)
ExpenseRecordsUpdateUsing(caller, row) == SqlEq(caller.uid, row.user_id)
ExpenseRecordsDeleteUsing(caller, row) == SqlEq(caller.uid, row.user_id)

\* id UUID NOT NULL DEFAULT gen_random_uuid()
NewRecordId(table) ==
  RecName[CHOOSE i \in 1..MaxRecords :
            /\ RecName[i] \notin Ids(table)
            /\ \A j \in 1..(i - 1) : RecName[j] \in Ids(table)]

\* the columns of a record an UPDATE assigns here: the owner or the amount
RecordPatches ==
  {[col |-> "user_id", user_id |-> u, amount |-> 0] : u \in Users}
  \cup {[col |-> "amount", user_id |-> "u1", amount |-> a] : a \in RecordAmountInputs}
PatchRecord(r, p) ==
  IF p.col = "user_id" THEN [r EXCEPT !.user_id = p.user_id]
  ELSE [r EXCEPT !.amount = RoundNumeric(p.amount)]

\* the categories a statement on expense_records names: one of the seed and
\* one that is not stored
RecordCategoryInputs == {"Food", "Unknown"}

\* the recordData an UPDATE of expense_records assigns: the owner, the
\* category and the amount together
ExpensePatches ==
  [user_id : Users, category_id : RecordCategoryInputs, amount : {5}]
PatchExpense(r, p) ==
  [r EXCEPT !.user_id = p.user_id, !.category_id = p.category_id,
            !.amount = RoundNumeric(p.amount)]

\* the source an INSERT of an income record sends
SourceInput == "Salary"
IncomeRow(id, user_id, amount, source) ==
  [id |-> id, user_id |-> user_id, amount |-> RoundNumeric(amount),
   source |-> source]

\* the outcome of an INSERT of row: the column's type, the policy's WITH
\* CHECK, the primary key
InsertIncomeStatus(caller, row) ==
  IF ~FitsNumeric(row.amount) THEN "numeric_overflow"
  ELSE IF ~Allowed(caller, IncomeRecordsInsertCheck(caller, row))
    THEN "rls_violation"
  ELSE IF row.id \in Ids(income_records) THEN "unique_violation"
  ELSE "ok"

\* supabase.from('income_records').insert([recordData])
InsertIncome(caller, id, user_id, amount) ==
  LET row == IncomeRow(id, user_id, amount, SourceInput)
      status == InsertIncomeStatus(caller, row)
  IN /\ income_records' = IF status = "ok" THEN income_records \cup {row}
                          ELSE income_records
     /\ lastOp' = Result(caller, "income_records", "INSERT", user_id, status,
                         IF status = "ok" THEN {id} ELSE {})
     /\ UNCHANGED <<expense_records, outsideRecords>>

IncomeUpdatable(caller, id) ==
  {r \in income_records :
     /\ r.id = id
     /\ Allowed(caller, /\ IncomeRecordsSelectUsing(caller, r)
                        /\ IncomeRecordsUpdateUsing(caller, r))}
IncomeDeletable(caller, id) ==
  {r \in income_records :
     /\ r.id = id
     /\ Allowed(caller, /\ IncomeRecordsSelectUsing(caller, r)
                        /\ IncomeRecordsDeleteUsing(caller, r))}

\* the outcome of an UPDATE that writes the rows new: the UPDATE policy has
\* no WITH CHECK, so its USING expression is applied to the new row as well
UpdateIncomeStatus(caller, new) ==
  IF \E r \in new : ~FitsNumeric(r.amount) THEN "numeric_overflow"
  ELSE IF \E r \in new :
            ~Allowed(caller, /\ IncomeRecordsSelectUsing(caller, r)
                             /\ IncomeRecordsUpdateUsing(caller, r))
    THEN "rls_violation"
  ELSE "ok"

\* supabase.from('income_records').update(recordData).eq('id', id)
UpdateIncome(caller, id, p) ==
  LET old == IncomeUpdatable(caller, id)
      new == {PatchRecord(r, p) : r \in old}
      status == UpdateIncomeStatus(caller, new)
  IN /\ income_records' = IF status = "ok" THEN (income_records \ old) \cup new
                          ELSE income_records
     /\ lastOp' = Result(caller, "income_records", "UPDATE", id, status,
                         IF status = "ok" THEN Ids(old) ELSE {})
     /\ UNCHANGED <<expense_records, outsideRecords>>

\* supabase.from('income_records').delete().eq('id', id)
DeleteIncome(caller, id) ==
  LET old == IncomeDeletable(caller, id)
  IN /\ income_records' = income_records \ old
     /\ lastOp' = Result(caller, "income_records", "DELETE", id, "ok", Ids(old))
     /\ UNCHANGED <<expense_records, outsideRecords>>

\* supabase.from('income_records').select('*').eq('user_id', user_id)
SelectIncome(caller, user_id) ==
  /\ lastOp' = Result(caller, "income_records", "SELECT", user_id, "ok",
                      Ids({r \in income_records :
                             /\ SqlEq(r.user_id, user_id)
                             /\ Allowed(caller, IncomeRecordsSelectUsing(caller, r))}))
  /\ UNCHANGED <<dbVars, sessionVars>>

ExpenseRow(id, user_id, category_id, amount) ==
  [id |-> id, user_id |-> user_id, category_id |-> category_id,
   amount |-> RoundNumeric(amount)]

\* mutant: category_id without its REFERENCES expense_categories(id)
InsertExpense_NoForeignKey(caller, id, user_id, category_id, amount) ==
  LET row == ExpenseRow(id, user_id, category_id, amount)
      status ==
        IF ~FitsNumeric(row.amount) THEN "numeric_overflow"
        ELSE IF ~Allowed(caller, ExpenseRecordsInsertCheck(caller, row))
          THEN "rls_violation"
        ELSE IF row.id \in Ids(expense_records) THEN "unique_violation"
        ELSE "ok"
  IN /\ expense_records' = IF status = "ok" THEN expense_records \cup {row}
                           ELSE expense_records
     /\ lastOp' = Result(caller, "expense_records", "INSERT", user_id, status,
                         IF status = "ok" THEN {id} ELSE {})
     /\ UNCHANGED <<income_records, outsideRecords>>

\* supabase.from('expense_records').insert([recordData]); category_id
\* REFERENCES expense_categories(id)
InsertExpense(caller, id, user_id, category_id, amount) ==
  LET row == ExpenseRow(id, user_id, category_id, amount)
      status ==
        IF ~FitsNumeric(row.amount) THEN "numeric_overflow"
        ELSE IF ~Allowed(caller, ExpenseRecordsInsertCheck(caller, row))
          THEN "rls_violation"
        ELSE IF row.id \in Ids(expense_records) THEN "unique_violation"
        ELSE IF row.category_id \notin Ids(expense_categories)
          THEN "foreign_key_violation"
        ELSE "ok"
  IN /\ expense_records' = IF status = "ok" THEN expense_records \cup {row}
                           ELSE expense_records
     /\ lastOp' = Result(caller, "expense_records", "INSERT", user_id, status,
                         IF status = "ok" THEN {id} ELSE {})
     /\ UNCHANGED <<income_records, outsideRecords>>

ExpenseUpdatable(caller, id) ==
  {r \in expense_records :
     /\ r.id = id
     /\ Allowed(caller, /\ ExpenseRecordsSelectUsing(caller, r)
                        /\ ExpenseRecordsUpdateUsing(caller, r))}
ExpenseDeletable(caller, id) ==
  {r \in expense_records :
     /\ r.id = id
     /\ Allowed(caller, /\ ExpenseRecordsSelectUsing(caller, r)
                        /\ ExpenseRecordsDeleteUsing(caller, r))}

\* supabase.from('expense_records').update(recordData).eq('id', id);
\* category_id REFERENCES expense_categories(id) is checked on the new row
\* after the policy
UpdateExpense(caller, id, p) ==
  LET old == ExpenseUpdatable(caller, id)
      new == {PatchExpense(r, p) : r \in old}
      status ==
        IF \E r \in new : ~FitsNumeric(r.amount) THEN "numeric_overflow"
        ELSE IF \E r \in new :
                  ~Allowed(caller, /\ ExpenseRecordsSelectUsing(caller, r)
                                   /\ ExpenseRecordsUpdateUsing(caller, r))
          THEN "rls_violation"
        ELSE IF \E r \in new : r.category_id \notin Ids(expense_categories)
          THEN "foreign_key_violation"
        ELSE "ok"
  IN /\ expense_records' = IF status = "ok" THEN (expense_records \ old) \cup new
                           ELSE expense_records
     /\ lastOp' = Result(caller, "expense_records", "UPDATE", id, status,
                         IF status = "ok" THEN Ids(old) ELSE {})
     /\ UNCHANGED <<income_records, outsideRecords>>

\* supabase.from('expense_records').delete().eq('id', id)
DeleteExpense(caller, id) ==
  LET old == ExpenseDeletable(caller, id)
  IN /\ expense_records' = expense_records \ old
     /\ lastOp' = Result(caller, "expense_records", "DELETE", id, "ok", Ids(old))
     /\ UNCHANGED <<income_records, outsideRecords>>

\* Dashboard.fetchDashboardData: supabase.from('expense_records')
\* .select('amount').eq('user_id', user_id).eq('quarter', ...).eq('year', ...)
\* .eq('currency', ...).  No table is embedded, so only the policies of
\* expense_records are applied.  The rows of the model are those of the
\* selected quarter, year and currency; rows holds the ids of the rows whose
\* amount is returned.
SelectExpenseAmounts(caller, user_id) ==
  /\ lastOp' = Result(caller, "expense_records", "SELECT", user_id, "ok",
                      Ids({r \in expense_records :
                             /\ SqlEq(r.user_id, user_id)
                             /\ Allowed(caller, ExpenseRecordsSelectUsing(caller, r))}))
  /\ UNCHANGED <<dbVars, sessionVars>>

\* ------------------------------------------------------------------ identities and profiles
\* auth.users rows carry id, email and, of raw_user_meta_data, the entries
\* full_name and role (full_name and meta_role here); email and the metadata
\* entries may be NULL
AdminEmail == "admin@fms.com"
EmailInputs == {AdminEmail, "user@fms.com", NULL}
MetaNameInputs == {"Ama", NULL}
ProfName == <<"p1", "p2", "p3", "p4">>

\* id UUID NOT NULL DEFAULT gen_random_uuid() of profiles
NewProfileId(profs) ==
  ProfName[CHOOSE i \in 1..Len(ProfName) :
             /\ ProfName[i] \notin Ids(profs)
             /\ \A j \in 1..(i - 1) : ProfName[j] \in Ids(profs)]

\* mutant: the name is always the email
ProvisionedName_EmailOnly(new) == new.email
\* mutant: every new identity gets role user
ProvisionedRole_AlwaysUser(new) == "user"
\* mutant: the role is the one the client sent in the metadata
ProvisionedRole_FromMetadata(new) ==
  IF new.meta_role # NULL THEN new.meta_role ELSE "user"

\* COALESCE(NEW.raw_user_meta_data->>'full_name', NEW.email)
ProvisionedName(new) ==
  IF new.full_name # NULL THEN new.full_name ELSE new.email
\* CASE WHEN NEW.email = 'admin@fms.com' THEN 'admin' ELSE 'user' END
ProvisionedRole(new) ==
  IF SqlEq(new.email, AdminEmail) THEN "admin" ELSE "user"

\* handle_new_user(): the row its INSERT INTO public.profiles sends
handle_new_user(new, profs) ==
  [id |-> NewProfileId(profs), user_id |-> new.id,
   full_name |-> ProvisionedName(new), role |-> ProvisionedRole(new)]

\* the constraints of profiles on a new row: full_name NOT NULL, the CHECK
\* on role, user_id UNIQUE, user_id REFERENCES auth.users(id)
ProfileConstraintStatus(row, profs, users) ==
  IF row.full_name = NULL THEN "not_null_violation"
  ELSE IF row.role \notin {"admin", "user"} THEN "check_violation"
  ELSE IF \E p \in profs : p.user_id = row.user_id THEN "unique_violation"
  ELSE IF row.user_id \notin Ids(users) THEN "foreign_key_violation"
  ELSE "ok"

\* mutant: the creation event is not refused for an identity that exists,
\* and the profile's unique key is not consulted
SignUpStatus_NoKeys(new, users, profs) ==
  IF handle_new_user(new, profs).full_name = NULL THEN "not_null_violation"
  ELSE "ok"
\* INSERT INTO auth.users with the AFTER INSERT trigger on_auth_user_created:
\* the primary key of auth.users, then the trigger's INSERT, which runs as
\* the function's owner (SECURITY DEFINER) and so past row-level security
SignUpStatus(new, users, profs) ==
  IF new.id \in Ids(users) THEN "unique_violation"
  ELSE ProfileConstraintStatus(handle_new_user(new, profs), profs,
                               users \cup {new})

\* mutant: the identity is kept when the trigger fails
AuthUsersAfter_BestEffort(new, status, users) ==
  IF new.id \in Ids(users) THEN users ELSE users \cup {new}
\* an error raised by the trigger aborts the INSERT INTO auth.users
AuthUsersAfter(new, status, users) ==
  IF status = "ok" THEN users \cup {new} ELSE users

\* supabase.auth.admin.createUser({email, password, user_metadata}) or a
\* sign-up: the auth service inserts the identity, the trigger the profile
SignUp(id, email, full_name, role) ==
  LET new == [id |-> id, email |-> email, full_name |-> full_name,
              meta_role |-> role]
      status == SignUpStatus(new, auth_users, profiles)
  IN /\ auth_users' = AuthUsersAfter(new, status, auth_users)
     /\ profiles' = IF status = "ok"
                      THEN profiles \cup {handle_new_user(new, profiles)}
                    ELSE profiles
     /\ lastOp' = Result([uid |-> NULL, bypassrls |-> TRUE], "auth.users",
                         "INSERT", id, status,
                         IF status = "ok" THEN {id} ELSE {})
     /\ UNCHANGED <<savings_goals, savings_transactions, income_records,
                    expense_records, expense_categories, currency_rates,
                    tx, rowLock, clientVars>>

\* ------------------------------------------------------------------ policies that consult the role
\* EXISTS (SELECT 1 FROM public.profiles WHERE user_id = auth.uid() AND
\* role = 'admin')
AdminProfileExists(caller, profs) ==
  \E p \in profs : SqlEq(p.user_id, caller.uid) /\ p.role = "admin"

\* profiles: "Users can view their own profile" OR "Admins can view all
\* profiles"; "Users can update their own profile"; "Admins can create
\* profiles"; no DELETE policy
ProfilesSelectUsing(caller, row, profs) ==
  SqlEq(caller.uid, row.user_id) \/ AdminProfileExists(caller, profs)
ProfilesUpdateUsing(caller, row) == SqlEq(caller.uid, row.user_id)
ProfilesInsertCheck(caller, row, profs) == AdminProfileExists(caller, profs)
ProfilesDeleteUsing(caller, row) == FALSE

\* expense_categories and currency_rates: "Everyone can view ..." (SELECT,
\* USING (true)) and "Admins can manage ..." (ALL)
ReferenceSelectUsing(caller, profs) == TRUE \/ AdminProfileExists(caller, profs)
ReferenceAllUsing(caller, profs) == AdminProfileExists(caller, profs)

\* The tables the sub-selects of the policies refer to, for the policies
\* the rewriter attaches to a statement of kind cmd on table.  An UPDATE or
\* DELETE whose filter reads a column gets the SELECT policies as well, and
\* a policy FOR ALL is attached to every kind of statement.
PolicySubLinks(table, cmd) ==
  IF table \in {"profiles", "expense_categories", "currency_rates"}
    THEN {"profiles"}
  ELSE IF table = "savings_transactions" THEN {"savings_goals"}
  ELSE {}

\* The rewriter expands the policies of a table, then those of the tables
\* their sub-selects read, keeping the list of the tables being expanded
\* (activeRIRs); meeting one of them again is the error "infinite
\* recursion detected in policy for relation".  It is raised whatever the
\* rows are, before the statement runs.
RECURSIVE InfiniteRecursion(_, _, _)
InfiniteRecursion(table, cmd, activeRIRs) ==
  /\ PolicySubLinks(table, cmd) # {}
  /\ \/ table \in activeRIRs
     \/ \E t \in PolicySubLinks(table, cmd) :
          InfiniteRecursion(t, "SELECT", activeRIRs \cup {table})

\* the outcome of the rewrite for a caller subject to row-level security
RewriteStatus(caller, table, cmd) ==
  IF ~caller.bypassrls /\ InfiniteRecursion(table, cmd, {})
    THEN "infinite_recursion"
  ELSE "ok"

\* supabase.from('expense_records').select('*, expense_categories ( name )')
\* .eq('user_id', user_id): the embedded expense_categories is read under its
\* own policies, so the statement is rewritten with them and the rewrite
\* fails before any row is read when they recurse
SelectExpenseResult(caller, user_id) ==
  LET status == RewriteStatus(caller, "expense_categories", "SELECT")
      seen == {r \in expense_records :
                 /\ SqlEq(r.user_id, user_id)
                 /\ Allowed(caller, ExpenseRecordsSelectUsing(caller, r))}
  IN Result(caller, "expense_records", "SELECT", user_id, status,
            IF status = "ok" THEN Ids(seen) ELSE {})

SelectExpense(caller, user_id) ==
  /\ lastOp' = SelectExpenseResult(caller, user_id)
  /\ UNCHANGED <<dbVars, sessionVars>>

\* ------------------------------------------------------------------ profiles
\* what a statement on profiles leaves alone
outsideProfiles == <<savings_goals, savings_transactions, income_records,
                     expense_records, expense_categories, currency_rates,
                     auth_users, tx, rowLock, clientVars>>

ProfileNameInputs == {"Ama", "Kofi"}
ProfileRoleInputs == {"admin", "user"}

\* mutant: the INSERT is checked against the constraints only
InsertProfileStatus_Unchecked(caller, row, profs, users) ==
  ProfileConstraintStatus(row, profs, users)
\* INSERT INTO profiles by a client: the rewrite, the WITH CHECK of "Admins
\* can create profiles", then the constraints
InsertProfileStatus(caller, row, profs, users) ==
  IF RewriteStatus(caller, "profiles", "INSERT") # "ok"
    THEN RewriteStatus(caller, "profiles", "INSERT")
  ELSE IF ~Allowed(caller, ProfilesInsertCheck(caller, row, profs))
    THEN "rls_violation"
  ELSE ProfileConstraintStatus(row, profs, users)

\* supabase.from('profiles').insert([{user_id, full_name, role}])
InsertProfile(caller, user_id, full_name, role) ==
  LET row == [id |-> NewProfileId(profiles), user_id |-> user_id,
              full_name |-> full_name, role |-> role]
      status == InsertProfileStatus(caller, row, profiles, auth_users)
  IN /\ profiles' = IF status = "ok" THEN profiles \cup {row} ELSE profiles
     /\ lastOp' = Result(caller, "profiles", "INSERT", user_id, status,
                         IF status = "ok" THEN {user_id} ELSE {})
     /\ UNCHANGED outsideProfiles

\* columns an UPDATE of profiles may assign (Update type of types.ts)
ProfilePatches ==
  {[col |-> "full_name", full_name |-> n, role |-> "user"] :
     n \in ProfileNameInputs}
  \cup {[col |-> "role", full_name |-> "Ama", role |-> r] :
          r \in ProfileRoleInputs}
PatchProfile(r, p) ==
  IF p.col = "full_name" THEN [r EXCEPT !.full_name = p.full_name]
  ELSE [r EXCEPT !.role = p.role]

ProfilesUpdatable(caller, user_id) ==
  {r \in profiles :
     /\ r.user_id = user_id
     /\ Allowed(caller, /\ ProfilesSelectUsing(caller, r, profiles)
                        /\ ProfilesUpdateUsing(caller, r))}

\* supabase.from('profiles').update(patch).eq('user_id', user_id); the
\* UPDATE policy has no WITH CHECK, so its USING expression is applied to
\* the new row as well
UpdateProfile(caller, user_id, p) ==
  LET old == ProfilesUpdatable(caller, user_id)
      new == {PatchProfile(r, p) : r \in old}
      status ==
        IF RewriteStatus(caller, "profiles", "UPDATE") # "ok"
          THEN RewriteStatus(caller, "profiles", "UPDATE")
        ELSE IF \E r \in new : ~Allowed(caller, ProfilesUpdateUsing(caller, r))
          THEN "rls_violation"
        ELSE IF \E r \in new : r.role \notin {"admin", "user"}
          THEN "check_violation"
        ELSE "ok"
  IN /\ profiles' = IF status = "ok" THEN (profiles \ old) \cup new
                    ELSE profiles
     /\ lastOp' = Result(caller, "profiles", "UPDATE", user_id, status,
                         IF status = "ok" THEN {r.user_id : r \in old} ELSE {})
     /\ UNCHANGED outsideProfiles

\* supabase.from('profiles').delete().eq('user_id', user_id)
DeleteProfile(caller, user_id) ==
  LET old == {r \in profiles :
                /\ r.user_id = user_id
                /\ Allowed(caller, /\ ProfilesSelectUsing(caller, r, profiles)
                                   /\ ProfilesDeleteUsing(caller, r))}
      status == RewriteStatus(caller, "profiles", "DELETE")
  IN /\ profiles' = IF status = "ok" THEN profiles \ old ELSE profiles
     /\ lastOp' = Result(caller, "profiles", "DELETE", user_id, status,
                         IF status = "ok" THEN {r.user_id : r \in old} ELSE {})
     /\ UNCHANGED outsideProfiles

\* fetchUsers: supabase.from('profiles').select('*').order('created_at'),
\* without a filter: every row the SELECT policies let the caller see
SelectProfile(caller) ==
  LET status == RewriteStatus(caller, "profiles", "SELECT")
      seen == {r \in profiles :
                 Allowed(caller, ProfilesSelectUsing(caller, r, profiles))}
  IN /\ lastOp' = Result(caller, "profiles", "SELECT", NULL, status,
                         IF status = "ok" THEN {r.user_id : r \in seen} ELSE {})
     /\ UNCHANGED <<dbVars, sessionVars>>

\* ------------------------------------------------------------------ expense_categories, currency_rates
\* rate DECIMAL(15,6), in millionths: the seed rows are 12.0 and 0.083
SeedRates == {[id |-> "USD-GHS", rate |-> 12000000],
              [id |-> "GHS-USD", rate |-> 83000]}
RateInput == 13000000

\* the row an INSERT sends, and the row an UPDATE leaves
ReferenceRow(table, id) ==
  IF table = "expense_categories" THEN [id |-> id, name |-> id]
  ELSE [id |-> id, rate |-> RateInput]
PatchReference(table, r) ==
  IF table = "expense_categories" THEN [r EXCEPT !.name = "Renamed"]
  ELSE [r EXCEPT !.rate = RateInput]

\* A statement of kind op on expense_categories or currency_rates naming
\* the row id: SELECT, INSERT, UPDATE or DELETE.  category_id of
\* expense_records REFERENCES expense_categories(id) without a referential
\* action, so a category in use cannot be deleted; name of expense_categories
\* is UNIQUE, for the row an INSERT adds and the row an UPDATE leaves.
ReferenceStatement(caller, table, op, id) ==
  LET rows == IF table = "expense_categories" THEN expense_categories
              ELSE currency_rates
      admin == Allowed(caller, ReferenceAllUsing(caller, profiles))
      reached == {r \in rows : r.id = id /\ admin}
      seen == {r \in rows :
                 r.id = id /\ Allowed(caller, ReferenceSelectUsing(caller, profiles))}
      status ==
        IF RewriteStatus(caller, table, op) # "ok"
          THEN RewriteStatus(caller, table, op)
        ELSE IF op = "INSERT" /\ ~admin THEN "rls_violation"
        ELSE IF op = "INSERT" /\ id \in Ids(rows) THEN "unique_violation"
        ELSE IF /\ op = "INSERT" /\ table = "expense_categories"
                /\ \E o \in rows : o.name = ReferenceRow(table, id).name
          THEN "unique_violation"
        ELSE IF /\ op = "UPDATE" /\ table = "expense_categories"
                /\ \E r \in reached, o \in rows \ reached :
                     o.name = PatchReference(table, r).name
          THEN "unique_violation"
        ELSE IF /\ op = "DELETE" /\ table = "expense_categories"
                /\ \E e \in expense_records : e.category_id \in Ids(reached)
          THEN "foreign_key_violation"
        ELSE "ok"
      after ==
        IF status # "ok" \/ op = "SELECT" THEN rows
        ELSE IF op = "INSERT" THEN rows \cup {ReferenceRow(table, id)}
        ELSE IF op = "UPDATE"
          THEN (rows \ reached) \cup {PatchReference(table, r) : r \in reached}
        ELSE rows \ reached
      affected ==
        IF status # "ok" THEN {}
        ELSE IF op = "SELECT" THEN Ids(seen)
        ELSE IF op = "INSERT" THEN {id}
        ELSE Ids(reached)
  IN /\ expense_categories' =
          IF table = "expense_categories" THEN after ELSE expense_categories
     /\ currency_rates' =
          IF table = "currency_rates" THEN after ELSE currency_rates
     /\ lastOp' = Result(caller, table, op, id, status, affected)
     /\ UNCHANGED <<savings_goals, savings_transactions, income_records,
                    expense_records, auth_users, profiles, tx, rowLock,
                    clientVars>>

\* ------------------------------------------------------------------ the browser: routes
\* <Routes>: the path of each protected page (rendered inside
\* <ProtectedRoute>), "/auth", "/" and any other path
Page == [p \in {"/dashboard", "/income", "/expenses", "/savings", "/admin"} |->
           CASE p = "/dashboard" -> "Dashboard"
             [] p = "/income" -> "Income"
             [] p = "/expenses" -> "Expenses"
             [] p = "/savings" -> "Savings"
             [] p = "/admin" -> "Admin"]
Paths == DOMAIN Page \cup {"/auth", "/", "/nowhere"}

\* mutant: the route does not look at the user
ProtectedRoute_NoUserCheck(a, children) ==
  IF a.loading THEN [element |-> "Loading", to |-> NULL]
  ELSE [element |-> children, to |-> NULL]

\* ProtectedRoute with { user, loading } = useAuth(): the element it
\* returns, and the path a <Navigate> sends the router to
ProtectedRoute(a, children) ==
  IF a.loading THEN [element |-> "Loading", to |-> NULL]
  ELSE IF a.user = NULL THEN [element |-> "Navigate", to |-> "/auth"]
  ELSE [element |-> children, to |-> NULL]

\* what <Routes> renders at a path under the authentication context a, and
\* the location after the <Navigate replace> elements have acted
Routes(path, a) ==
  LET p == IF path = "/" THEN "/dashboard" ELSE path
  IN IF p = "/auth" THEN [location |-> p, view |-> "Auth"]
     ELSE IF p \in DOMAIN Page
       THEN LET r == ProtectedRoute(a, Page[p])
            IN IF r.element = "Navigate"
                 THEN [location |-> r.to, view |-> "Auth"]
               ELSE [location |-> p, view |-> r.element]
     ELSE [location |-> p, view |-> "NotFound"]

\* ------------------------------------------------------------------ the browser: income page
\* texts of the amount field ("" is the empty field) and what parseFloat
\* gives for them, in tenths of a cent; "1e13" stands for the smallest
\* amount beyond the range of the column
AmountTexts == {"", "0.07", "0.12", "1e13"}
parseFloat(t) ==
  CASE t = "0.07" -> 70
    [] t = "0.12" -> 120
    [] t = "1e13" -> 10 * (NumericMax + 1)
\* record.amount.toString(), for the amounts this form stores
AmountToString(c) ==
  CHOOSE t \in AmountTexts \ {""} : RoundNumeric(parseFloat(t)) = c
\* texts of the source field
SourceTexts == {"", SourceInput}

\* the useState initial values of the page; loading is true from the mount
\* until a fetchIncomeRecords has answered (the mount effect calls it)
EmptyForm == [amount |-> "", source |-> ""]
\* editingRecord when no record is being edited (null)
NoRecord == [id |-> NULL, user_id |-> NULL, amount |-> 0, source |-> ""]
InitialIncome ==
  [incomeRecords |-> {}, loading |-> TRUE, isDialogOpen |-> FALSE,
   editingRecord |-> NoRecord, formData |-> EmptyForm]

\* A call of the supabase client the page is waiting for (await): the
\* statement, the identity of the session it left with (uid), the user of
\* the render the calling function belongs to (user: the filter of a SELECT,
\* the user_id of recordData), the id an UPDATE or DELETE names, amount and
\* source of recordData; "sent" until the database has run it, then "done"
\* with the status and the rows it answered; alive while the Income that
\* made the call is mounted (the setters of an unmounted component do
\* nothing).  A submit or a delete is taken while fewer than MaxRequests
\* calls are under way; one more slot holds the fetch of an effect.
Slots == 1..(MaxRequests + 1)
NoRequest ==
  [op |-> "none", uid |-> NULL, user |-> NULL, id |-> NULL, amount |-> 0,
   source |-> "", phase |-> "done", status |-> "ok", data |-> {},
   alive |-> FALSE]
UnderWay(rs) == Cardinality({i \in Slots : rs[i].op # "none"})
HasFree(rs) == \E i \in Slots : rs[i] = NoRequest
Sent(rs, req) ==
  LET i == CHOOSE k \in Slots :
             /\ rs[k] = NoRequest
             /\ \A j \in 1..(k - 1) : rs[j] # NoRequest
  IN [rs EXCEPT ![i] = req]
\* the inserts on their way: each will take a fresh id
InsertsSent(rs) == Cardinality({i \in Slots : rs[i].op = "INSERT"})

\* fetchIncomeRecords up to its await, called on page state pg with the
\* calls rs under way: setLoading(true), then
\* select('*').eq('user_id', user?.id) leaves with the session of uid
fetchIncomeRecords(pg, rs, user, uid, alive) ==
  [page |-> IF alive THEN [pg EXCEPT !.loading = TRUE] ELSE pg,
   requests |-> Sent(rs, [NoRequest EXCEPT !.op = "SELECT", !.uid = uid,
                                          !.user = user, !.phase = "sent",
                                          !.alive = alive])]

\* <Routes> is rendered at path under the context a.  The page state is
\* kept while Income stays rendered and starts anew when it is mounted;
\* useEffect(..., [user]) calls fetchIncomeRecords when Income is mounted
\* and when the user of the context has changed; the calls of an Income
\* that is unmounted stay under way.
Render(path, a) ==
  LET r == Routes(path, a)
      stays == view = "Income" /\ r.view = "Income"
      effect == /\ r.view = "Income"
                /\ a.user # NULL
                /\ ~stays \/ a.user # auth.user
      rs == IF view = "Income" /\ r.view # "Income"
              THEN [i \in Slots |->
                      IF requests[i] = NoRequest THEN NoRequest
                      ELSE [requests[i] EXCEPT !.alive = FALSE]]
            ELSE requests
      pg == IF stays THEN page ELSE InitialIncome
      st == fetchIncomeRecords(pg, rs, a.user, a.user, TRUE)
  IN /\ location' = r.location
     /\ view' = r.view
     /\ effect => HasFree(rs)
     /\ page' = IF effect THEN st.page ELSE pg
     /\ requests' = IF effect THEN st.requests ELSE rs

\* the context of useAuth() changes (the session is loaded, a user signs in
\* or out) and the routes are rendered again
AuthStateChange(user, loading) ==
  /\ auth' = [user |-> user, loading |-> loading]
  /\ Render(location, auth')
  /\ UNCHANGED <<dbVars, lastOp, tx, rowLock>>

\* a <Link> of the layout is followed, or a path is entered
NavigateTo(path) ==
  /\ Render(path, auth)
  /\ UNCHANGED <<dbVars, lastOp, tx, rowLock, auth>>

\* what the database leaves alone when it runs a call of the income page
outsideIncomePage == <<savings_goals, savings_transactions, expense_records,
                       expense_categories, tx, rowLock, identityVars,
                       auth, location, view>>
\* what an event or a continuation of the income page leaves alone
outsidePage == <<dbVars, lastOp, tx, rowLock, auth, location, view>>

\* the database runs the call in slot i and answers
Execute(i) ==
  LET req == requests[i]
      caller == [uid |-> req.uid, bypassrls |-> FALSE]
      data == {r \in income_records :
                 /\ SqlEq(r.user_id, req.user)
                 /\ Allowed(caller, IncomeRecordsSelectUsing(caller, r))}
      row == IncomeRow(NewRecordId(income_records), req.user, req.amount,
                       req.source)
      istatus == InsertIncomeStatus(caller, row)
      uold == IncomeUpdatable(caller, req.id)
      unew == {[r EXCEPT !.user_id = req.user,
                         !.amount = RoundNumeric(req.amount),
                         !.source = req.source] : r \in uold}
      ustatus == UpdateIncomeStatus(caller, unew)
      dold == IncomeDeletable(caller, req.id)
      status == CASE req.op = "INSERT" -> istatus
                  [] req.op = "UPDATE" -> ustatus
                  [] OTHER -> "ok"
  IN /\ req.op # "none" /\ req.phase = "sent"
     /\ income_records' =
          CASE req.op = "INSERT" /\ istatus = "ok" -> income_records \cup {row}
            [] req.op = "UPDATE" /\ ustatus = "ok" ->
                 (income_records \ uold) \cup unew
            [] req.op = "DELETE" -> income_records \ dold
            [] OTHER -> income_records
     /\ lastOp' =
          CASE req.op = "SELECT" ->
                 Result(caller, "income_records", "SELECT", req.user, "ok",
                        Ids(data))
            [] req.op = "INSERT" ->
                 Result(caller, "income_records", "INSERT", req.user, istatus,
                        IF istatus = "ok" THEN {row.id} ELSE {})
            [] req.op = "UPDATE" ->
                 Result(caller, "income_records", "UPDATE", req.id, ustatus,
                        IF ustatus = "ok" THEN Ids(uold) ELSE {})
            [] req.op = "DELETE" ->
                 Result(caller, "income_records", "DELETE", req.id, "ok",
                        Ids(dold))
     /\ requests' = [requests EXCEPT ![i] =
                       [req EXCEPT !.phase = "done", !.status = status,
                                   !.data = IF req.op = "SELECT" THEN data
                                            ELSE {}]]
     /\ UNCHANGED <<page, outsideIncomePage>>

\* fetchIncomeRecords after its await: setIncomeRecords(data || []), or the
\* catch block, then setLoading(false)
fetchIncomeRecordsAwaited(i) ==
  LET req == requests[i]
  IN /\ req.op = "SELECT" /\ req.phase = "done"
     /\ page' = IF ~req.alive THEN page
                ELSE [page EXCEPT
                        !.incomeRecords = IF req.status = "ok" THEN req.data
                                          ELSE @,
                        !.loading = FALSE]
     /\ requests' = [requests EXCEPT ![i] = NoRequest]
     /\ UNCHANGED outsidePage

\* the Edit button of a listed record (the list is rendered when loading is
\* false)
handleEdit(record) ==
  /\ view = "Income" /\ ~page.loading /\ record \in page.incomeRecords
  /\ page' = [page EXCEPT
                !.editingRecord = record,
                !.formData = [amount |-> AmountToString(record.amount),
                              source |-> record.source],
                !.isDialogOpen = TRUE]
  /\ UNCHANGED <<requests, outsidePage>>

\* setIsDialogOpen(false), setEditingRecord(null), setFormData({...})
Saved(pg) ==
  [pg EXCEPT !.isDialogOpen = FALSE, !.editingRecord = NoRecord,
             !.formData = EmptyForm]

\* Income.handleSubmit from the submit event to its await: the validation,
\* recordData, and the update or insert leaves
handleSubmit ==
  LET f == page.formData
      req == [NoRequest EXCEPT
                !.op = IF page.editingRecord # NoRecord THEN "UPDATE"
                       ELSE "INSERT",
                !.uid = auth.user, !.user = auth.user,
                !.id = page.editingRecord.id,
                !.amount = parseFloat(f.amount), !.source = f.source,
                !.phase = "sent", !.alive = TRUE]
  IN /\ view = "Income" /\ page.isDialogOpen
     /\ IF f.amount = "" \/ f.source = "" THEN UNCHANGED vars
        ELSE /\ UnderWay(requests) < MaxRequests
             /\ page.editingRecord = NoRecord =>
                  Cardinality(income_records) + InsertsSent(requests) < MaxRecords
             /\ requests' = Sent(requests, req)
             /\ UNCHANGED <<page, outsidePage>>

\* mutant: the dialog is closed whatever the answer
handleSubmitAwaited_ClosesAlways(i) ==
  LET req == requests[i]
      rs == [requests EXCEPT ![i] = NoRequest]
      st == fetchIncomeRecords(IF req.alive THEN Saved(page) ELSE page, rs,
                               req.user, auth.user, req.alive)
  IN /\ req.op \in {"INSERT", "UPDATE"} /\ req.phase = "done"
     /\ IF req.status = "ok"
          THEN page' = st.page /\ requests' = st.requests
        ELSE /\ page' = IF req.alive THEN Saved(page) ELSE page
             /\ requests' = rs
     /\ UNCHANGED outsidePage

\* Income.handleSubmit after its await: on an error the catch block (a
\* toast); otherwise the three resets and fetchIncomeRecords()
handleSubmitAwaited(i) ==
  LET req == requests[i]
      rs == [requests EXCEPT ![i] = NoRequest]
      st == fetchIncomeRecords(IF req.alive THEN Saved(page) ELSE page, rs,
                               req.user, auth.user, req.alive)
  IN /\ req.op \in {"INSERT", "UPDATE"} /\ req.phase = "done"
     /\ IF req.status = "ok"
          THEN page' = st.page /\ requests' = st.requests
        ELSE page' = page /\ requests' = rs
     /\ UNCHANGED outsidePage

\* Income.handleDelete from the click on the Delete button of a listed
\* record to its await
handleDelete(id) ==
  /\ view = "Income" /\ ~page.loading /\ id \in Ids(page.incomeRecords)
  /\ UnderWay(requests) < MaxRequests
  /\ requests' = Sent(requests, [NoRequest EXCEPT
                                   !.op = "DELETE", !.uid = auth.user,
                                   !.user = auth.user, !.id = id,
                                   !.phase = "sent", !.alive = TRUE])
  /\ UNCHANGED <<page, outsidePage>>

\* Income.handleDelete after its await: the catch block, or
\* fetchIncomeRecords()
handleDeleteAwaited(i) ==
  LET req == requests[i]
      rs == [requests EXCEPT ![i] = NoRequest]
      st == fetchIncomeRecords(page, rs, req.user, auth.user, req.alive)
  IN /\ req.op = "DELETE" /\ req.phase = "done"
     /\ IF req.status = "ok"
          THEN page' = st.page /\ requests' = st.requests
        ELSE page' = page /\ requests' = rs
     /\ UNCHANGED outsidePage

\* ------------------------------------------------------------------ seed data
\* INSERT INTO public.expense_categories (name, description) VALUES ...
SeedCategories ==
  {[id |-> n, name |-> n] :
     n \in {"Housing", "Transportation", "Food", "Healthcare", "Entertainment",
            "Personal", "Technology", "Other"}}

\* database sessions: each runs one transaction at a time
Sessions == {"s1", "s2"}
NoRow == [id |-> NULL, savings_goal_id |-> NULL, amount |-> 0,
          transaction_type |-> NULL]
IdleTx == [pc |-> "idle", uid |-> NULL, bypassrls |-> FALSE, row |-> NoRow,
           pending |-> {}, status |-> "ok", waited |-> FALSE]

NoOp == [uid |-> NULL, bypassrls |-> FALSE, table |-> "none", op |-> "none",
         arg |-> NULL, status |-> "ok", rows |-> {}]

\* the tables after the migration
InitTables ==
  /\ savings_goals = {}
  /\ savings_transactions = {}
  /\ income_records = {}
  /\ expense_records = {}
  /\ expense_categories = SeedCategories
  /\ currency_rates = SeedRates
  /\ lastOp = NoOp
  /\ tx = [s \in Sessions |-> IdleTx]
  /\ rowLock = [g \in GoalIds |-> NULL]
  /\ auth = [user |-> NULL, loading |-> TRUE]
  /\ location = "/dashboard"
  /\ view = "Loading"
  /\ page = InitialIncome
  /\ requests = [i \in Slots |-> NoRequest]

\* the two users the statements are issued by have signed up: each has its
\* identity and the profile handle_new_user gave it
UserName == <<"u1", "u2">>
Init ==
  /\ InitTables
  /\ auth_users = {[id |-> UserName[i], email |-> "user@fms.com",
                    full_name |-> "Ama", meta_role |-> "user"] : i \in 1..2}
  /\ profiles = {[id |-> ProfName[i], user_id |-> UserName[i],
                  full_name |-> "Ama", role |-> "user"] : i \in 1..2}

\* the database right after the migration: nobody has signed up
InitFresh ==
  /\ InitTables
  /\ auth_users = {}
  /\ profiles = {}

\* ------------------------------------------------------------------ savings: every statement
\* id UUID NOT NULL DEFAULT gen_random_uuid(): the clients never send an id,
\* so a new row gets an id no stored row has
NewTxnId(txns) ==
  TxnName[CHOOSE i \in 1..Len(TxnName) :
            /\ TxnName[i] \notin Ids(txns)
            /\ \A j \in 1..(i - 1) : TxnName[j] \in Ids(txns)]

\* Every kind of statement on the two savings tables, by every caller.  The
\* policies read neither amounts nor types, so one amount and one type are
\* sent here (SpecLedger varies them); current_amount is left to the trigger
\* (SpecDirect writes it), and only callers subject to row-level security
\* issue UPDATE on savings_transactions.
StmtAmountInputs == {5}
StmtTypeInputs == {"deposit"}
StmtInsertGoal ==
  \E c \in Callers, id \in GoalIds, u \in Users :
     InsertGoal(c, id, u, "a", DefaultCurrentAmount)
StmtUpdateGoal ==
  \E c \in Callers, id \in GoalIds, p \in LedgerGoalPatches : UpdateGoal(c, id, p)
StmtDeleteGoal == \E c \in Callers, id \in GoalIds : DeleteGoal(c, id)
StmtSelectGoal == \E c \in Callers, u \in Users : SelectGoal(c, u)
StmtInsertTransaction ==
  /\ Cardinality(savings_transactions) < MaxTxns
  /\ \E c \in Callers, g \in GoalIds, a \in StmtAmountInputs,
        t \in StmtTypeInputs :
        InsertTransaction(c, NewTxnId(savings_transactions), g, a, t)
StmtUpdateTransaction ==
  \E c \in OrdinaryCallers, id \in TxnIds, p \in TransactionPatches :
     UpdateTransaction(c, id, p)
StmtDeleteTransaction ==
  \E c \in Callers, id \in TxnIds : DeleteTransaction(c, id)
StmtSelectTransaction ==
  \E c \in Callers, id \in TxnIds : SelectTransaction(c, id)

Next ==
  \/ StmtInsertGoal
  \/ StmtUpdateGoal
  \/ StmtDeleteGoal
  \/ StmtSelectGoal
  \/ StmtInsertTransaction
  \/ StmtUpdateTransaction
  \/ StmtDeleteTransaction
  \/ StmtSelectTransaction

Spec == Init /\ [][Next]_vars

\* ------------------------------------------------------------------ savings: the ledger
\* The statements that write the ledger and leave savings_goals.current_amount
\* to the trigger: a goal is created with the column's default and deleted,
\* savings_transactions rows are inserted and removed.  The callers are the
\* users and the role that bypasses row-level security (the only one whose
\* DELETE reaches a savings_transactions row).
LedgerCallers == {c \in Callers : c.bypassrls \/ c.uid # NULL}
LedgerInsertGoal ==
  \E c \in LedgerCallers, id \in GoalIds, u \in Users :
     InsertGoal(c, id, u, "a", DefaultCurrentAmount)
LedgerDeleteGoal == \E c \in LedgerCallers, id \in GoalIds : DeleteGoal(c, id)
LedgerInsertTransaction ==
  /\ Cardinality(savings_transactions) < MaxTxns
  /\ \E c \in LedgerCallers, g \in GoalIds, a \in AmountInputs,
        t \in TransactionTypeInputs :
        InsertTransaction(c, NewTxnId(savings_transactions), g, a, t)
LedgerDeleteTransaction ==
  \E c \in LedgerCallers, id \in TxnIds : DeleteTransaction(c, id)

LedgerNext ==
  \/ LedgerInsertGoal
  \/ LedgerDeleteGoal
  \/ LedgerInsertTransaction
  \/ LedgerDeleteTransaction

SpecLedger == Init /\ [][LedgerNext]_vars

\* ------------------------------------------------------------------ properties: derived balance
RECURSIVE SumAmounts(_)
SumAmounts(rows) ==
  IF rows = {} THEN 0
  ELSE LET r == CHOOSE x \in rows : TRUE
       IN r.amount + SumAmounts(rows \ {r})

StoredOf(gid, type) ==
  {r \in savings_transactions :
     r.savings_goal_id = gid /\ r.transaction_type = type}

\* a step in which a statement on table succeeded and affected rows
Acted(table, op) ==
  /\ lastOp'.table = table
  /\ lastOp'.op = op
  /\ lastOp'.status = "ok"
  /\ lastOp'.rows # {}

\* C1: under insertions and removals of savings transactions, every goal
\* created with current_amount 0 has current_amount equal to the sum of its
\* stored deposits minus the sum of its stored withdrawals.
C1_BalanceIsSignedSum ==
  \A g \in savings_goals :
    g.current_amount = SumAmounts(StoredOf(g.id, "deposit"))
                         - SumAmounts(StoredOf(g.id, "withdrawal"))

\* a removal has just been applied, and a goal that still holds a
\* transaction has a balance that is not zero
C1_Witness ==
  /\ lastOp.table = "savings_transactions" /\ lastOp.op = "DELETE"
  /\ lastOp.rows # {}
  /\ \E g \in savings_goals :
       /\ StoredOf(g.id, "deposit") \cup StoredOf(g.id, "withdrawal") # {}
       /\ g.current_amount # 0

\* C5: a successful insertion of transaction T referencing goal G changes
\* G.current_amount by +T.amount for a deposit and by -T.amount for a
\* withdrawal.
C5_InsertAdjusts ==
  [][Acted("savings_transactions", "INSERT") =>
       \A t \in savings_transactions' \ savings_transactions :
         \A g \in savings_goals : g.id = t.savings_goal_id =>
           \E h \in savings_goals' :
             /\ h.id = g.id
             /\ h.current_amount =
                  IF t.transaction_type = "deposit"
                    THEN g.current_amount + t.amount
                    ELSE g.current_amount - t.amount]_vars

\* a withdrawal has just been inserted and moved the balance of its goal
C5_Witness ==
  /\ lastOp.table = "savings_transactions" /\ lastOp.op = "INSERT"
  /\ \E t \in savings_transactions :
       /\ t.id \in lastOp.rows
       /\ t.transaction_type = "withdrawal"
       /\ t.amount > 0
       /\ \E g \in savings_goals :
            g.id = t.savings_goal_id /\ g.current_amount < 0

\* C6: removing transaction T subtracts T.amount from its goal if T was a
\* deposit and adds it back if T was a withdrawal; and inserting T again and
\* then removing it again gives back the savings_goals table as it is after
\* the removal.
ServiceRole == [uid |-> NULL, bypassrls |-> TRUE]
C6_RemoveReverses ==
  [][Acted("savings_transactions", "DELETE") =>
       \A t \in savings_transactions \ savings_transactions' :
         /\ \A g \in savings_goals : g.id = t.savings_goal_id =>
              \E h \in savings_goals' :
                /\ h.id = g.id
                /\ h.current_amount =
                     IF t.transaction_type = "deposit"
                       THEN g.current_amount - t.amount
                       ELSE g.current_amount + t.amount
         /\ update_savings_goal_amount("DELETE", ServiceRole, t,
              update_savings_goal_amount("INSERT", ServiceRole, t, savings_goals'))
              = savings_goals']_vars

\* a withdrawal has just been removed from a goal that keeps a deposit
C6_Witness ==
  /\ lastOp.table = "savings_transactions" /\ lastOp.op = "DELETE"
  /\ lastOp.rows # {}
  /\ \E g \in savings_goals :
       /\ StoredOf(g.id, "withdrawal") = {}
       /\ StoredOf(g.id, "deposit") # {}
       /\ g.current_amount > 0

\* ------------------------------------------------------------------ savings: direct writes
\* The statements of the ledger together with those that assign
\* savings_goals.current_amount themselves: an INSERT that sends the column
\* and an UPDATE that sets it.
DirectCallers == OrdinaryCallers
DirectInsertGoal ==
  \E c \in DirectCallers, id \in GoalIds, u \in Users, a \in CurrentAmountInputs :
     InsertGoal(c, id, u, "a", a)
DirectUpdateGoal ==
  \E c \in DirectCallers, id \in GoalIds, p \in GoalPatches : UpdateGoal(c, id, p)
DirectDeleteGoal == \E c \in DirectCallers, id \in GoalIds : DeleteGoal(c, id)
DirectInsertTransaction ==
  /\ Cardinality(savings_transactions) < MaxTxns
  /\ \E c \in DirectCallers, g \in GoalIds, a \in StmtAmountInputs,
        t \in StmtTypeInputs :
        InsertTransaction(c, NewTxnId(savings_transactions), g, a, t)

DirectNext ==
  \/ DirectInsertGoal
  \/ DirectUpdateGoal
  \/ DirectDeleteGoal
  \/ DirectInsertTransaction

SpecDirect == Init /\ [][DirectNext]_vars

\* C2: no statement of a caller subject to row-level security on
\* savings_goals changes the current_amount of a goal, and a goal such a
\* caller inserts has current_amount equal to the signed sum of its
\* transactions (it has none, so 0).
C2_OwnerNeverSetsBalance ==
  [][(lastOp'.table = "savings_goals" /\ ~lastOp'.bypassrls) =>
       /\ \A g \in savings_goals, h \in savings_goals' :
            g.id = h.id => h.current_amount = g.current_amount
       /\ \A h \in savings_goals' :
            h.id \notin Ids(savings_goals) =>
              h.current_amount = SumAmounts(StoredOf(h.id, "deposit"))
                                   - SumAmounts(StoredOf(h.id, "withdrawal"))]_vars

\* ------------------------------------------------------------------ properties: savings policies
OwnsGoal(uid, gid) ==
  \E g \in savings_goals : g.id = gid /\ g.user_id = uid

\* C9: for a caller subject to row-level security, a SELECT returns the
\* savings transaction it names exactly when the caller's identity is the
\* owner, at that moment, of the goal the row refers to, and an INSERT of a
\* transaction is accepted exactly when the caller's identity is the owner,
\* at that moment, of the goal the new row refers to.
C9_TransitiveOwnership ==
  [][(lastOp'.table = "savings_transactions" /\ ~lastOp'.bypassrls) =>
       /\ lastOp'.op = "SELECT" =>
            /\ lastOp'.rows \subseteq {lastOp'.arg}
            /\ lastOp'.rows = {lastOp'.arg} <=>
                 \E t \in savings_transactions :
                   /\ t.id = lastOp'.arg
                   /\ OwnsGoal(lastOp'.uid, t.savings_goal_id)
       /\ lastOp'.op = "INSERT" =>
            /\ lastOp'.status = "ok" <=> OwnsGoal(lastOp'.uid, lastOp'.arg)
            /\ lastOp'.status = "ok" <=>
                 savings_transactions' # savings_transactions
            /\ \A t \in savings_transactions' \ savings_transactions :
                 t.savings_goal_id = lastOp'.arg]_vars

\* a user who owns a goal has just been refused the insertion of a
\* transaction into a goal of another user, whose stored transaction the
\* first user cannot see
C9_Witness ==
  /\ lastOp.table = "savings_transactions" /\ lastOp.op = "INSERT"
  /\ lastOp.status = "rls_violation"
  /\ ~lastOp.bypassrls
  /\ \E mine \in savings_goals : mine.user_id = lastOp.uid
  /\ \E g \in savings_goals :
       /\ g.id = lastOp.arg
       /\ g.user_id # lastOp.uid
       /\ \E t \in savings_transactions :
            /\ t.savings_goal_id = g.id
            /\ t \notin TransactionsVisible([uid |-> lastOp.uid, bypassrls |-> FALSE],
                                            savings_goals, savings_transactions)

\* C10: an UPDATE or DELETE of savings_transactions by a caller subject to
\* row-level security affects no row and leaves the table as it is, and no
\* statement of such a caller changes the amount, the type or the goal of a
\* stored transaction.
C10_TransactionsImmutable ==
  [][~lastOp'.bypassrls =>
       /\ (lastOp'.table = "savings_transactions"
             /\ lastOp'.op \in {"UPDATE", "DELETE"}) =>
            /\ lastOp'.rows = {}
            /\ savings_transactions' = savings_transactions
       /\ \A t \in savings_transactions, u \in savings_transactions' :
            t.id = u.id => u = t]_vars

\* the owner of a goal has just issued a DELETE naming a stored transaction
\* of that goal, and the row is still there
C10_Witness ==
  /\ lastOp.table = "savings_transactions" /\ lastOp.op = "DELETE"
  /\ ~lastOp.bypassrls
  /\ lastOp.rows = {}
  /\ \E t \in savings_transactions :
       t.id = lastOp.arg /\ OwnsGoal(lastOp.uid, t.savings_goal_id)

\* ------------------------------------------------------------------ owned records
\* Every kind of statement on the three tables whose rows carry their owner
\* (income_records, expense_records, savings_goals), by every caller subject
\* to row-level security: the two users and the anonymous caller.  An INSERT
\* sends any user as owner; an UPDATE or DELETE names any id, a SELECT any
\* user (expense_records is read both with expense_categories embedded, as
\* the expenses page does, and alone, as the dashboard does).  One
\* goal id is enough here: Spec runs the statements on two goals.  The amount
\* is updated on income_records; on expense_records the UPDATE assigns the
\* owner and the category.
RecordsNext ==
  \/ \E c \in OrdinaryCallers, u \in Users :
       /\ Cardinality(income_records) < MaxRecords
       /\ InsertIncome(c, NewRecordId(income_records), u, 5)
  \/ \E c \in OrdinaryCallers, id \in RecordIds, p \in RecordPatches :
       UpdateIncome(c, id, p)
  \/ \E c \in OrdinaryCallers, id \in RecordIds : DeleteIncome(c, id)
  \/ \E c \in OrdinaryCallers, u \in Users : SelectIncome(c, u)
  \/ \E c \in OrdinaryCallers, u \in Users, k \in RecordCategoryInputs :
       /\ Cardinality(expense_records) < MaxRecords
       /\ InsertExpense(c, NewRecordId(expense_records), u, k, 5)
  \/ \E c \in OrdinaryCallers, id \in RecordIds, p \in ExpensePatches :
       UpdateExpense(c, id, p)
  \/ \E c \in OrdinaryCallers, id \in RecordIds : DeleteExpense(c, id)
  \/ \E c \in OrdinaryCallers, u \in Users : SelectExpense(c, u)
  \/ \E c \in OrdinaryCallers, u \in Users : SelectExpenseAmounts(c, u)
  \/ \E c \in OrdinaryCallers, u \in Users :
       InsertGoal(c, "g1", u, "a", DefaultCurrentAmount)
  \/ \E c \in OrdinaryCallers, p \in LedgerGoalPatches : UpdateGoal(c, "g1", p)
  \/ \E c \in OrdinaryCallers : DeleteGoal(c, "g1")
  \/ \E c \in OrdinaryCallers, u \in Users : SelectGoal(c, u)

SpecRecords == Init /\ [][RecordsNext]_vars

\* C7: a statement of caller B leaves every savings goal, income record and
\* expense record owned by another user A as it is, and a SELECT of B on the
\* table does not return it, whatever user or id B names.
C7_OwnedRowsIsolated ==
  [][~lastOp'.bypassrls =>
       /\ \A r \in income_records : r.user_id # lastOp'.uid =>
            /\ r \in income_records'
            /\ (lastOp'.table = "income_records" /\ lastOp'.op = "SELECT")
                 => r.id \notin lastOp'.rows
       /\ \A r \in expense_records : r.user_id # lastOp'.uid =>
            /\ r \in expense_records'
            /\ (lastOp'.table = "expense_records" /\ lastOp'.op = "SELECT")
                 => r.id \notin lastOp'.rows
       /\ \A r \in savings_goals : r.user_id # lastOp'.uid =>
            /\ r \in savings_goals'
            /\ (lastOp'.table = "savings_goals" /\ lastOp'.op = "SELECT")
                 => r.id \notin lastOp'.rows]_vars

\* a user who holds a goal has just read expense_records as the dashboard
\* does, naming the other user, who holds an expense record and an income
\* record: no error and no row
C7_Witness ==
  /\ lastOp.table = "expense_records" /\ lastOp.op = "SELECT"
  /\ lastOp.status = "ok"
  /\ lastOp.uid \in Users
  /\ lastOp.arg \in Users \ {lastOp.uid}
  /\ lastOp.rows = {}
  /\ \E e \in expense_records : e.user_id = lastOp.arg
  /\ \E r \in income_records : r.user_id = lastOp.arg
  /\ \E g \in savings_goals : g.user_id = lastOp.uid

\* C8: an INSERT into income_records, expense_records or savings_goals by a
\* caller subject to row-level security that sends an owner other than the
\* caller's identity ends in an error, affects no row and leaves the three
\* tables as they are.
C8_ForeignOwnerRejected ==
  [][(/\ lastOp'.op = "INSERT"
      /\ lastOp'.table \in {"income_records", "expense_records", "savings_goals"}
      /\ ~lastOp'.bypassrls
      /\ lastOp'.arg # lastOp'.uid) =>
       /\ lastOp'.status # "ok"
       /\ lastOp'.rows = {}
       /\ UNCHANGED <<income_records, expense_records, savings_goals>>]_vars

\* a user who holds a goal and an income record has just been refused the
\* insertion of an expense record owned by the other user
C8_Witness ==
  /\ lastOp.table = "expense_records" /\ lastOp.op = "INSERT"
  /\ lastOp.uid \in Users /\ lastOp.arg \in Users \ {lastOp.uid}
  /\ lastOp.status = "rls_violation"
  /\ \E g \in savings_goals : g.user_id = lastOp.uid
  /\ \E r \in income_records : r.user_id = lastOp.uid

\* ------------------------------------------------------------------ concurrent insertions
\* An INSERT INTO savings_transactions as the database runs it, one session
\* for each request, under READ COMMITTED.  The committed tables are
\* savings_goals and savings_transactions; what a session has written and not
\* yet committed is in tx[s] (row: the inserted row, pending: the new versions
\* of the savings_goals rows the trigger's UPDATE wrote) and is visible to no
\* other session.
ConcAmountInputs == {10, 10 * NumericMax}

\* the rows inserted by transactions still open
InFlightRows == {tx[s].row : s \in {x \in Sessions :
                                      tx[x].pc \in {"inserted", "waiting", "updated"}}}

\* mutant: the trigger's UPDATE does not wait for the row lock
RowLockFree_NoWait(s, gid) == TRUE
\* mutant: the trigger's UPDATE locks the table, not the row
RowLockFree_TableLock(s, gid) == \A g \in GoalIds : rowLock[g] \in {NULL, s}
\* UPDATE takes the lock of the row it writes and waits while another
\* transaction holds it
RowLockFree(s, gid) == rowLock[gid] \in {NULL, s}

\* mutant: the commit publishes the inserted row without the trigger's update
CommittedGoals_RowOnly(goals, pending) == goals
\* at commit the row versions written by the transaction replace the
\* committed ones
CommittedGoals(goals, pending) ==
  {g \in goals : g.id \notin Ids(pending)} \cup pending

\* the statement starts: the row is built, checked and inserted
TxInsert(s, caller, gid, amount, type) ==
  LET taken == savings_transactions \cup InFlightRows
      row == TransactionRow(NewTxnId(taken), gid, amount, type)
      status == InsertRowStatus(caller, row, savings_goals, taken)
  IN /\ tx[s].pc \in {"idle", "committed", "failed"}
     /\ Cardinality(taken) < MaxConcTxns
     /\ tx' = [tx EXCEPT ![s] =
                 IF status = "ok"
                   THEN [pc |-> "inserted", uid |-> caller.uid,
                         bypassrls |-> caller.bypassrls, row |-> row,
                         pending |-> {}, status |-> status, waited |-> FALSE]
                   ELSE [IdleTx EXCEPT !.pc = "failed", !.status = status]]
     /\ UNCHANGED <<dbVars, lastOp, rowLock, clientVars>>

\* The trigger's UPDATE savings_goals SET current_amount = current_amount +
\* adjustment WHERE id = NEW.savings_goal_id.  PostgreSQL builds the new row,
\* the sum cast to DECIMAL(15,2), from the version of the goal's row the
\* statement's snapshot sees (the committed one), and only then reaches for
\* the row lock: an overflow on that version is raised at once, whoever holds
\* the lock.  When the new row fits and another transaction holds the lock,
\* the session sleeps.
TxWait(s) ==
  LET caller == [uid |-> tx[s].uid, bypassrls |-> tx[s].bypassrls]
      goals == update_savings_goal_amount("INSERT", caller, tx[s].row,
                                          savings_goals)
  IN /\ tx[s].pc = "inserted"
     /\ GoalsFit(goals)
     /\ ~RowLockFree(s, tx[s].row.savings_goal_id)
     /\ tx' = [tx EXCEPT ![s].pc = "waiting", ![s].waited = TRUE]
     /\ UNCHANGED <<dbVars, lastOp, rowLock, clientVars>>

\* The trigger's UPDATE runs to its end.  A session that has not slept
\* computes the new row from the committed version: an overflow aborts the
\* transaction without a look at the lock, and a row that fits is written
\* when the lock is free.  A session that slept wakes when the lock is free,
\* takes the latest committed version and computes the new row again from
\* it, where the overflow may be raised as well.  An error aborts the
\* transaction, and the inserted row goes with it.
TxTrigger(s) ==
  LET caller == [uid |-> tx[s].uid, bypassrls |-> tx[s].bypassrls]
      gid == tx[s].row.savings_goal_id
      goals == update_savings_goal_amount("INSERT", caller, tx[s].row,
                                          savings_goals)
  IN /\ tx[s].pc \in {"inserted", "waiting"}
     /\ \/ RowLockFree(s, gid)
        \/ tx[s].pc = "inserted" /\ ~GoalsFit(goals)
     /\ IF GoalsFit(goals)
          THEN /\ tx' = [tx EXCEPT ![s].pc = "updated",
                                   ![s].pending = goals \ savings_goals]
               /\ rowLock' =
                    IF GoalsUpdatable(caller, savings_goals, gid) # {}
                      THEN [rowLock EXCEPT ![gid] = s]
                    ELSE rowLock
          ELSE /\ tx' = [tx EXCEPT ![s] =
                           [IdleTx EXCEPT !.pc = "failed",
                                          !.status = "numeric_overflow",
                                          !.waited = tx[s].waited]]
               /\ UNCHANGED rowLock
     /\ UNCHANGED <<dbVars, lastOp, clientVars>>

\* COMMIT: the inserted row and the new version of the goal's row become
\* visible together, and the lock is released
TxCommit(s) ==
  /\ tx[s].pc = "updated"
  /\ savings_transactions' = savings_transactions \cup {tx[s].row}
  /\ savings_goals' = CommittedGoals(savings_goals, tx[s].pending)
  /\ rowLock' = [g \in GoalIds |-> IF rowLock[g] = s THEN NULL ELSE rowLock[g]]
  /\ tx' = [tx EXCEPT ![s].pc = "committed", ![s].pending = {}]
  /\ UNCHANGED <<income_records, expense_records, expense_categories, lastOp,
                 identityVars, clientVars>>

\* the goals are created by their owners, each statement in a transaction
\* of its own, and the two users insert transactions from two sessions
ConcNext ==
  \/ \E u \in Users, id \in GoalIds :
       /\ InsertGoal([uid |-> u, bypassrls |-> FALSE], id, u, "a",
                     DefaultCurrentAmount)
  \/ \E s \in Sessions, u \in Users, g \in GoalIds, a \in ConcAmountInputs,
        t \in TransactionTypeInputs :
       TxInsert(s, [uid |-> u, bypassrls |-> FALSE], g, a, t)
  \/ \E s \in Sessions : TxWait(s)
  \/ \E s \in Sessions : TxTrigger(s)
  \/ \E s \in Sessions : TxCommit(s)

SpecConc == Init /\ [][ConcNext]_vars

\* ------------------------------------------------------------------ properties: concurrency
\* the committed balance of goal gid is the signed sum of its committed
\* transactions
BalanceIsLedger(gid) ==
  \A g \in savings_goals : g.id = gid =>
    g.current_amount = SumAmounts(StoredOf(gid, "deposit"))
                         - SumAmounts(StoredOf(gid, "withdrawal"))

\* C3: when two sessions have each committed an insertion against the same
\* goal, in whatever order their steps ran, the goal's current_amount is the
\* signed sum that includes both rows; and each commit moves the balance
\* from the value committed just before it by exactly its own adjustment.
C3_NoLostUpdate ==
  /\ [](\A s1, s2 \in Sessions :
          (/\ s1 # s2
           /\ tx[s1].pc = "committed" /\ tx[s2].pc = "committed"
           /\ tx[s1].row.savings_goal_id = tx[s2].row.savings_goal_id) =>
            /\ {tx[s1].row, tx[s2].row} \subseteq savings_transactions
            /\ BalanceIsLedger(tx[s1].row.savings_goal_id))
  /\ [][\A s \in Sessions :
          (tx[s].pc = "updated" /\ tx'[s].pc = "committed") =>
            \A g \in savings_goals : g.id = tx[s].row.savings_goal_id =>
              \E h \in savings_goals' :
                /\ h.id = g.id
                /\ h.current_amount = g.current_amount + NewAdjustment(tx[s].row)]_vars

\* two sessions have committed insertions against the same goal, the second
\* after waiting for the first, and the balance holds both adjustments
C3_Witness ==
  \E s1, s2 \in Sessions :
    /\ s1 # s2
    /\ tx[s1].pc = "committed" /\ tx[s2].pc = "committed"
    /\ tx[s1].row.savings_goal_id = tx[s2].row.savings_goal_id
    /\ tx[s2].waited
    /\ \E g \in savings_goals :
         /\ g.id = tx[s1].row.savings_goal_id
         /\ g.current_amount # 0
         /\ g.current_amount = NewAdjustment(tx[s1].row) + NewAdjustment(tx[s2].row)

\* C4: in every committed state, the one observers read, the balance of each
\* goal includes exactly the committed transaction rows; a step in which a
\* transaction fails changes neither savings_transactions nor savings_goals,
\* and nothing the failed transaction wrote is left.
C4_InsertionAtomic ==
  /\ [](\A g \in savings_goals : BalanceIsLedger(g.id))
  /\ [][\A s \in Sessions :
          (tx'[s] # tx[s] /\ tx'[s].pc = "failed") =>
            /\ UNCHANGED <<savings_goals, savings_transactions>>
            /\ tx'[s].row = NoRow /\ tx'[s].pending = {}
            /\ \A g \in GoalIds : rowLock'[g] # s]_vars

\* a transaction has failed in the trigger with a numeric overflow without
\* having slept; the only goal has a committed balance of one cent, and the
\* other session holds the lock of its row with a withdrawal it has not
\* committed
C4_Witness ==
  \E s, t \in Sessions :
    /\ tx[s].pc = "failed" /\ tx[s].status = "numeric_overflow"
    /\ ~tx[s].waited
    /\ tx[t].pc = "updated"
    /\ tx[t].row \notin savings_transactions
    /\ tx[t].row.transaction_type = "withdrawal"
    /\ Cardinality(savings_goals) = 1
    /\ \E g \in savings_goals :
         /\ g.id = tx[t].row.savings_goal_id
         /\ rowLock[g.id] = t
         /\ g.current_amount = 1

\* ------------------------------------------------------------------ identities, profiles, reference tables
\* From the database right after the migration: identities are created
\* (the trigger provisions their profiles), and every caller subject to
\* row-level security, the anonymous caller and each identity that exists,
\* issues every kind of statement on profiles, expense_categories and
\* currency_rates.
ReferenceIdInputs ==
  [expense_categories |-> {"Food", "Travel"},
   currency_rates |-> {"USD-GHS", "USD-GHS-2"}]
SignedIn(c) == c.uid = NULL \/ c.uid \in Ids(auth_users)

ProfilesNext ==
  \/ \E id \in Users, e \in EmailInputs, n \in MetaNameInputs,
        r \in ProfileRoleInputs : SignUp(id, e, n, r)
  \/ \E c \in OrdinaryCallers, u \in Users, r \in ProfileRoleInputs :
       SignedIn(c) /\ InsertProfile(c, u, "Kofi", r)
  \/ \E c \in OrdinaryCallers, u \in Users, p \in ProfilePatches :
       SignedIn(c) /\ UpdateProfile(c, u, p)
  \/ \E c \in OrdinaryCallers, u \in Users : SignedIn(c) /\ DeleteProfile(c, u)
  \/ \E c \in OrdinaryCallers : SignedIn(c) /\ SelectProfile(c)
  \/ \E c \in OrdinaryCallers, t \in DOMAIN ReferenceIdInputs,
        op \in {"SELECT", "INSERT", "UPDATE", "DELETE"} :
       \E id \in ReferenceIdInputs[t] :
         SignedIn(c) /\ ReferenceStatement(c, t, op, id)

SpecProfiles == InitFresh /\ [][ProfilesNext]_vars

\* ------------------------------------------------------------------ properties: roles
\* the role of the profile of the caller of the step's statement
RoleOf(uid) ==
  IF \E p \in profiles : p.user_id = uid /\ p.role = "admin" THEN "admin"
  ELSE IF \E p \in profiles : p.user_id = uid THEN "user"
  ELSE "none"

\* C11: a SELECT on expense_categories or currency_rates by any caller
\* subject to row-level security returns the row it names; an INSERT, UPDATE
\* or DELETE changes the table only for a caller whose profile has role
\* admin, and for such a caller it is applied; a statement of any other
\* caller leaves both tables as they are.
C11_ReferenceTables ==
  [][(lastOp'.table \in {"expense_categories", "currency_rates"}
        /\ ~lastOp'.bypassrls) =>
       LET rows == IF lastOp'.table = "expense_categories"
                     THEN expense_categories ELSE currency_rates
           admin == RoleOf(lastOp'.uid) = "admin"
       IN /\ lastOp'.op = "SELECT" =>
               /\ lastOp'.status = "ok"
               /\ lastOp'.rows = {lastOp'.arg} \cap Ids(rows)
          /\ (lastOp'.op = "INSERT" /\ lastOp'.arg \notin Ids(rows)) =>
               (lastOp'.status = "ok" <=> admin)
          /\ (lastOp'.op \in {"UPDATE", "DELETE"} /\ lastOp'.arg \in Ids(rows)) =>
               (lastOp'.rows = {lastOp'.arg} <=> admin)
          /\ ~admin => UNCHANGED <<expense_categories, currency_rates>>]_vars

\* C12: the SELECT on profiles of a caller whose profile has role admin
\* returns every profile, and that of a caller whose profile has role user
\* returns the caller's own profile and no other.
C12_ProfileVisibility ==
  [][(lastOp'.table = "profiles" /\ lastOp'.op = "SELECT"
        /\ ~lastOp'.bypassrls) =>
       /\ RoleOf(lastOp'.uid) = "admin" =>
            /\ lastOp'.status = "ok"
            /\ lastOp'.rows = {p.user_id : p \in profiles}
       /\ RoleOf(lastOp'.uid) = "user" =>
            /\ lastOp'.status = "ok"
            /\ lastOp'.rows = {lastOp'.uid}]_vars

\* C13: a caller whose profile has role user can set the full_name of its
\* own profile, and no statement of such a caller changes the role of any
\* profile.
C13_OwnerChangesNameOnly ==
  /\ [](\A u \in Users : RoleOf(u) = "user" =>
          \A n \in ProfileNameInputs :
            ENABLED (/\ UpdateProfile([uid |-> u, bypassrls |-> FALSE], u,
                                      [col |-> "full_name", full_name |-> n,
                                       role |-> "user"])
                     /\ \E q \in profiles' : q.user_id = u /\ q.full_name = n))
  /\ [][(~lastOp'.bypassrls /\ RoleOf(lastOp'.uid) = "user") =>
          \A p \in profiles, q \in profiles' : p.id = q.id => q.role = p.role]_vars

\* C14: an UPDATE of profiles by a caller whose profile has role admin is
\* applied to the row it names, whoever owns the row.
C14_AdminUpdatesAnyProfile ==
  [][(/\ lastOp'.table = "profiles" /\ lastOp'.op = "UPDATE"
      /\ ~lastOp'.bypassrls
      /\ RoleOf(lastOp'.uid) = "admin"
      /\ \E p \in profiles : p.user_id = lastOp'.arg) =>
       /\ lastOp'.status = "ok"
       /\ lastOp'.rows = {lastOp'.arg}]_vars

\* C15: an INSERT into profiles by a caller subject to row-level security
\* succeeds only if the caller's profile has role admin; for any other caller
\* it is rejected before a constraint is consulted and profiles is left as
\* it is.
C15_ProfileInsertAdminOnly ==
  [][(lastOp'.table = "profiles" /\ lastOp'.op = "INSERT"
        /\ ~lastOp'.bypassrls) =>
       /\ lastOp'.status = "ok" => RoleOf(lastOp'.uid) = "admin"
       /\ RoleOf(lastOp'.uid) # "admin" =>
            /\ lastOp'.status \in {"rls_violation", "infinite_recursion"}
            /\ lastOp'.rows = {}
            /\ profiles' = profiles]_vars

\* a caller whose profile has role user has just been refused the INSERT of
\* a profile with role admin, while an admin exists
C15_Witness ==
  /\ lastOp.table = "profiles" /\ lastOp.op = "INSERT"
  /\ RoleOf(lastOp.uid) = "user"
  /\ lastOp.status # "ok"
  /\ \E p \in profiles : p.role = "admin"

\* a step that created an identity
Created ==
  /\ lastOp'.table = "auth.users" /\ lastOp'.op = "INSERT"
  /\ lastOp'.status = "ok"

\* C16: the profile provisioned for a new identity has role admin if the
\* identity's email is admin@fms.com and role user otherwise.
C16_RoleFromEmail ==
  [][Created =>
       \E u \in auth_users' \ auth_users :
         /\ u.id = lastOp'.arg
         /\ \E p \in profiles' \ profiles :
              /\ p.user_id = u.id
              /\ p.role = IF u.email = AdminEmail THEN "admin" ELSE "user"]_vars

\* an identity with the admin email and one without an email exist, the
\* first with an admin profile and the second with a user profile
C16_Witness ==
  /\ lastOp.table = "auth.users" /\ lastOp.status = "ok"
  /\ \E u, v \in auth_users :
       /\ u.email = AdminEmail /\ v.email = NULL
       /\ \E p, q \in profiles :
            /\ p.user_id = u.id /\ p.role = "admin"
            /\ q.user_id = v.id /\ q.role = "user"

\* C17: every identity has exactly one profile, in every state reached by
\* identity creations (repeated ones included) and client statements
\* (INSERT into profiles by an admin included).
C17_OneProfilePerIdentity ==
  /\ \A u \in auth_users :
       Cardinality({p \in profiles : p.user_id = u.id}) = 1
  /\ Cardinality(auth_users) = Cardinality(Ids(auth_users))
  /\ Cardinality(profiles) = Cardinality(auth_users)

\* an admin has just issued an INSERT into profiles, both identities exist,
\* and each still has one profile
C17_Witness ==
  /\ lastOp.table = "profiles" /\ lastOp.op = "INSERT"
  /\ RoleOf(lastOp.uid) = "admin"
  /\ Cardinality(auth_users) = 2
  /\ Cardinality(profiles) = 2

\* C18: a creation of an identity that fails, in the trigger included,
\* leaves auth.users and profiles as they are, and no identity is without a
\* profile.
C18_ProvisioningAtomic ==
  /\ [](\A u \in auth_users : \E p \in profiles : p.user_id = u.id)
  /\ [][(lastOp'.table = "auth.users" /\ lastOp'.status # "ok") =>
          UNCHANGED <<auth_users, profiles>>]_vars

\* the trigger has just failed on the NOT NULL of full_name (no metadata
\* name and no email) for an identity that does not exist, beside one that
\* does
C18_Witness ==
  /\ lastOp.table = "auth.users" /\ lastOp.status = "not_null_violation"
  /\ lastOp.arg \notin Ids(auth_users)
  /\ auth_users # {}

\* C19: the provisioned profile's full_name is the metadata full_name of the
\* identity when there is one and the identity's email when there is none.
C19_NameFromMetadata ==
  [][Created =>
       \E u \in auth_users' \ auth_users :
         /\ u.id = lastOp'.arg
         /\ \E p \in profiles' \ profiles :
              /\ p.user_id = u.id
              /\ p.full_name = IF u.full_name # NULL THEN u.full_name
                               ELSE u.email]_vars

\* one identity was created with a metadata name and one without, and the
\* profile of the second carries its email
C19_Witness ==
  /\ lastOp.table = "auth.users" /\ lastOp.status = "ok"
  /\ \E u, v \in auth_users :
       /\ u.full_name # NULL /\ v.full_name = NULL
       /\ \E p, q \in profiles :
            /\ p.user_id = u.id /\ p.full_name = u.full_name
            /\ q.user_id = v.id /\ q.full_name = v.email

\* ------------------------------------------------------------------ properties: denial
\* Every kind of statement on every table that carries policies, by every
\* caller subject to row-level security (the two users, each with a profile
\* of role user, and the anonymous caller).  An INSERT sends any user as
\* owner; an UPDATE or DELETE names any id (on profiles any user, one without
\* a profile included), a SELECT what the pages' SELECTs name; an UPDATE
\* assigns the owner as well as other columns.
DenialUsers == Users \cup {"u3"}
DenialNext ==
  \/ \E c \in OrdinaryCallers, u \in Users :
       /\ Cardinality(income_records) < MaxRecords
       /\ InsertIncome(c, NewRecordId(income_records), u, 5)
  \/ \E c \in OrdinaryCallers, id \in RecordIds, p \in RecordPatches :
       UpdateIncome(c, id, p)
  \/ \E c \in OrdinaryCallers, id \in RecordIds : DeleteIncome(c, id)
  \/ \E c \in OrdinaryCallers, u \in Users : SelectIncome(c, u)
  \/ \E c \in OrdinaryCallers, u \in Users :
       /\ Cardinality(expense_records) < MaxRecords
       /\ InsertExpense(c, NewRecordId(expense_records), u, "Food", 5)
  \/ \E c \in OrdinaryCallers, id \in RecordIds, p \in ExpensePatches :
       p.category_id = "Food" /\ UpdateExpense(c, id, p)
  \/ \E c \in OrdinaryCallers, id \in RecordIds : DeleteExpense(c, id)
  \/ \E c \in OrdinaryCallers, u \in Users : SelectExpense(c, u)
  \/ \E c \in OrdinaryCallers, u \in Users : SelectExpenseAmounts(c, u)
  \/ \E c \in OrdinaryCallers, u \in Users :
       InsertGoal(c, "g1", u, "a", DefaultCurrentAmount)
  \/ \E c \in OrdinaryCallers, p \in LedgerGoalPatches : UpdateGoal(c, "g1", p)
  \/ \E c \in OrdinaryCallers : DeleteGoal(c, "g1")
  \/ \E c \in OrdinaryCallers, u \in Users : SelectGoal(c, u)
  \/ \E c \in OrdinaryCallers, a \in StmtAmountInputs, t \in StmtTypeInputs :
       /\ Cardinality(savings_transactions) < MaxTxns
       /\ InsertTransaction(c, NewTxnId(savings_transactions), "g1", a, t)
  \/ \E c \in OrdinaryCallers, id \in TxnIds, p \in TransactionPatches :
       p.col = "transaction_type" /\ UpdateTransaction(c, id, p)
  \/ \E c \in OrdinaryCallers, id \in TxnIds : DeleteTransaction(c, id)
  \/ \E c \in OrdinaryCallers, id \in TxnIds : SelectTransaction(c, id)
  \/ \E c \in OrdinaryCallers, u \in Users : InsertProfile(c, u, "Kofi", "user")
  \/ \E c \in OrdinaryCallers, u \in DenialUsers, p \in ProfilePatches :
       p.col = "full_name" /\ UpdateProfile(c, u, p)
  \/ \E c \in OrdinaryCallers, u \in DenialUsers : DeleteProfile(c, u)
  \/ \E c \in OrdinaryCallers : SelectProfile(c)
  \/ \E c \in OrdinaryCallers, t \in DOMAIN ReferenceIdInputs,
        op \in {"SELECT", "INSERT", "UPDATE", "DELETE"} :
       \E id \in ReferenceIdInputs[t] : ReferenceStatement(c, t, op, id)

SpecDenial == Init /\ [][DenialNext]_vars

\* the rows of a table, and whether a row is one the caller may reach: its
\* own on the tables whose rows carry their owner, the transactions of its
\* own goals, its own profile, and no row of the tables only admins manage
\* (the callers here have role user or no profile)
RowsOf(table) ==
  CASE table = "savings_goals" -> savings_goals
    [] table = "income_records" -> income_records
    [] table = "expense_records" -> expense_records
    [] table = "savings_transactions" -> savings_transactions
    [] table = "profiles" -> profiles
    [] table = "expense_categories" -> expense_categories
    [] table = "currency_rates" -> currency_rates
OwnRow(uid, table, r) ==
  CASE table \in {"savings_goals", "income_records", "expense_records"} ->
         r.user_id = uid
    [] table = "savings_transactions" -> OwnsGoal(uid, r.savings_goal_id)
    [] table = "profiles" -> r.user_id = uid
    [] table \in {"expense_categories", "currency_rates"} -> FALSE
\* the value a filter on the row's key compares: the owner on profiles
\* (.eq('user_id', ...)), the id elsewhere
KeyOf(table, r) == IF table = "profiles" THEN r.user_id ELSE r.id
\* the tables whose policies read the role of the caller in profiles
RoleTables == {"profiles", "expense_categories", "currency_rates"}

\* C20: for a caller subject to row-level security and every table with
\* policies.  An UPDATE or DELETE (and the SELECT of savings_transactions)
\* that names the key of a row the caller may not reach ends as one that
\* names a key no row has: no row affected or returned, every table as it
\* was, and the same status, which is no error on the tables whose rows are
\* owned and the error of the rewrite on the tables whose policies read the
\* role.  A SELECT that names a user returns no row when the user is not the
\* caller, whether that user has rows or not, changes nothing and ends
\* without an error (the SELECT of expense_records that embeds
\* expense_categories ends in the error of the rewrite, whoever is named);
\* the unfiltered SELECT of profiles returns no row of another user.  An
\* INSERT, and an UPDATE or DELETE of a row the caller may reach, that is
\* refused stores, changes and removes no row and leaves every table as it
\* was.
C20_DenialIsSilent ==
  [][(~lastOp'.bypassrls /\ lastOp'.table # "none") =>
       LET table == lastOp'.table
           op == lastOp'.op
           c == [uid |-> lastOp'.uid, bypassrls |-> FALSE]
           reach == {KeyOf(table, r) :
                       r \in {x \in RowsOf(table) : OwnRow(c.uid, table, x)}}
           byKey == \/ op \in {"UPDATE", "DELETE"}
                    \/ op = "SELECT" /\ table = "savings_transactions"
           byUser == /\ op = "SELECT"
                     /\ table \in {"savings_goals", "income_records",
                                    "expense_records"}
           silent == IF table \in RoleTables THEN "infinite_recursion" ELSE "ok"
       IN /\ (byKey /\ lastOp'.arg \notin reach) =>
               /\ lastOp'.status = silent
               /\ lastOp'.rows = {}
               /\ UNCHANGED dbVars
          /\ (byUser /\ lastOp'.arg # c.uid) =>
               /\ lastOp'.rows = {}
               /\ UNCHANGED dbVars
               /\ lastOp'.status =
                    IF SelectExpense(c, lastOp'.arg) THEN "infinite_recursion"
                    ELSE "ok"
          /\ (op = "SELECT" /\ table = "profiles") =>
               /\ lastOp'.status = silent
               /\ \A p \in profiles :
                    p.user_id # c.uid => p.user_id \notin lastOp'.rows
               /\ UNCHANGED dbVars
          /\ (op \in {"INSERT", "UPDATE", "DELETE"} /\ lastOp'.status # "ok") =>
               /\ lastOp'.rows = {}
               /\ UNCHANGED dbVars]_vars

\* a user has just issued an UPDATE naming the expense record of another
\* user: no error and no row affected, as for an id that is not stored
C20_Witness ==
  /\ lastOp.table = "expense_records" /\ lastOp.op = "UPDATE"
  /\ lastOp.uid \in Users
  /\ lastOp.status = "ok" /\ lastOp.rows = {}
  /\ \E e \in expense_records : e.id = lastOp.arg /\ e.user_id # lastOp.uid
  /\ "r2" \notin Ids(expense_records)

\* ------------------------------------------------------------------ the savings page: goal form
\* Savings.handleGoalSubmit for the signed-in user: the form holds the name
\* and the target amount as text ("" is an empty field), editingGoal is the
\* id of the goal being edited or NULL, and id is the value
\* gen_random_uuid() gives a new row.  goalData carries user_id, name,
\* target_amount, currency, target_date, goal_type and description; of
\* these the model keeps user_id and name.
\* mutant: goalData carries a current_amount as well
handleGoalSubmit_WritesBalance(user, editingGoal, name, target_amount, id) ==
  LET caller == [uid |-> user, bypassrls |-> FALSE]
      old == GoalsUpdatable(caller, savings_goals, editingGoal)
      new == {[g EXCEPT !.user_id = user, !.name = name,
                        !.current_amount = 30] : g \in old}
      status == UpdateGoalStatus(caller, new)
  IN IF name = "" \/ target_amount = "" THEN UNCHANGED vars
     ELSE IF editingGoal # NULL
       THEN /\ savings_goals' = IF status = "ok"
                                  THEN (savings_goals \ old) \cup new
                                ELSE savings_goals
            /\ lastOp' = Result(caller, "savings_goals", "UPDATE", editingGoal,
                                status, IF status = "ok" THEN Ids(old) ELSE {})
            /\ UNCHANGED <<savings_transactions, outsideSavings>>
     ELSE InsertGoal(caller, id, user, name, 300)

handleGoalSubmit(user, editingGoal, name, target_amount, id) ==
  LET caller == [uid |-> user, bypassrls |-> FALSE]
      old == GoalsUpdatable(caller, savings_goals, editingGoal)
      new == {[g EXCEPT !.user_id = user, !.name = name] : g \in old}
      status == UpdateGoalStatus(caller, new)
  IN IF name = "" \/ target_amount = "" THEN UNCHANGED vars
     ELSE IF editingGoal # NULL
       THEN /\ savings_goals' = IF status = "ok"
                                  THEN (savings_goals \ old) \cup new
                                ELSE savings_goals
            /\ lastOp' = Result(caller, "savings_goals", "UPDATE", editingGoal,
                                status, IF status = "ok" THEN Ids(old) ELSE {})
            /\ UNCHANGED <<savings_transactions, outsideSavings>>
     ELSE InsertGoal(caller, id, user, name, DefaultCurrentAmount)

\* The two users work with the goal form (creating goals, editing any goal
\* whose id they hold) and insert transactions, so that the goals edited
\* have balances.
GoalFormNext ==
  \/ \E u \in Users, e \in GoalIds \cup {NULL}, n \in Names \cup {""},
        t \in {"", "100"}, id \in GoalIds :
       /\ e = NULL => id \notin Ids(savings_goals)
       /\ handleGoalSubmit(u, e, n, t, id)
  \/ \E u \in Users, g \in GoalIds, a \in StmtAmountInputs,
        t \in TransactionTypeInputs :
       /\ Cardinality(savings_transactions) < MaxTxns
       /\ InsertTransaction([uid |-> u, bypassrls |-> FALSE],
                            NewTxnId(savings_transactions), g, a, t)

SpecGoalForm == Init /\ [][GoalFormNext]_vars

\* C24: a step of handleGoalSubmit leaves the current_amount of every stored
\* goal as it is, and a goal it creates has current_amount 0.
C24_FormLeavesBalance ==
  [][\A u \in Users, e \in GoalIds \cup {NULL}, n \in Names \cup {""},
        t \in {"", "100"}, id \in GoalIds :
       ((e = NULL => id \notin Ids(savings_goals))
        /\ handleGoalSubmit(u, e, n, t, id)) =>
         /\ \A g \in savings_goals, h \in savings_goals' :
              g.id = h.id => h.current_amount = g.current_amount
         /\ \A h \in savings_goals' :
              h.id \notin Ids(savings_goals) => h.current_amount = 0
         /\ Ids(savings_goals) \subseteq Ids(savings_goals')]_vars

\* the owner of a goal with a balance has just renamed it through the form
C24_Witness ==
  /\ lastOp.table = "savings_goals" /\ lastOp.op = "UPDATE"
  /\ lastOp.status = "ok"
  /\ \E g \in savings_goals :
       /\ lastOp.rows = {g.id}
       /\ g.user_id = lastOp.uid
       /\ g.name = "b"
       /\ g.current_amount # 0
       /\ \E t \in savings_transactions : t.savings_goal_id = g.id

\* ------------------------------------------------------------------ constraints of the rows
\* C21: an INSERT into expense_records whose category_id is the id of no row
\* of expense_categories ends in an error and leaves expense_records as it
\* is; when the row is the caller's own, the error is the violation of the
\* foreign key.
C21_UnknownCategoryRejected ==
  [][(/\ lastOp'.table = "expense_records" /\ lastOp'.op = "INSERT"
      /\ ~lastOp'.bypassrls
      /\ Cardinality(expense_records) < MaxRecords) =>
       LET c == [uid |-> lastOp'.uid, bypassrls |-> FALSE]
           u == lastOp'.arg
       IN \A k \in RecordCategoryInputs \ Ids(expense_categories) :
            InsertExpense(c, NewRecordId(expense_records), u, k, 5) =>
              /\ lastOp'.status # "ok"
              /\ lastOp'.rows = {}
              /\ expense_records' = expense_records
              /\ SqlEq(c.uid, u) => lastOp'.status = "foreign_key_violation"]_vars

\* a user who holds an income record has just sent an expense record of
\* their own with a category that does not exist
C21_Witness ==
  /\ lastOp.table = "expense_records" /\ lastOp.op = "INSERT"
  /\ lastOp.uid \in Users /\ lastOp.arg = lastOp.uid
  /\ lastOp.status = "foreign_key_violation"
  /\ expense_records = {}
  /\ \E r \in income_records : r.user_id = lastOp.uid

\* C22: every stored savings transaction has an amount above zero.
C22_AmountsPositive ==
  \A t \in savings_transactions : t.amount > 0

\* ------------------------------------------------------------------ properties: independent goals
\* C23: a transaction that has inserted a row for goal G2 while no other open
\* transaction has a row for G2 runs its trigger at once, whatever is pending
\* on other goals: it is never put to sleep; and the steps of a transaction
\* on goal G1 (its trigger's update, its commit) leave the rows of every
\* other goal and the locks on them as they are.
C23_GoalsIndependent ==
  /\ [](\A s \in Sessions :
          (/\ tx[s].pc = "inserted"
           /\ \A t \in Sessions \ {s} :
                tx[t].pc \in {"inserted", "waiting", "updated"} =>
                  tx[t].row.savings_goal_id # tx[s].row.savings_goal_id) =>
            /\ ENABLED TxTrigger(s)
            /\ ~ENABLED TxWait(s))
  /\ [][\A s \in Sessions :
          (tx[s].pc \in {"inserted", "waiting", "updated"} /\ tx'[s] # tx[s]) =>
            /\ \A g \in savings_goals :
                 g.id # tx[s].row.savings_goal_id => g \in savings_goals'
            /\ \A g \in GoalIds :
                 g # tx[s].row.savings_goal_id => rowLock'[g] = rowLock[g]
            /\ \A t \in Sessions \ {s} : tx'[t] = tx[t]]_vars

\* one session holds the lock of a goal with its insertion not yet committed
\* while the other one has committed an insertion against another goal
\* without ever waiting
C23_Witness ==
  \E s, t \in Sessions :
    /\ tx[s].pc = "updated" /\ rowLock[tx[s].row.savings_goal_id] = s
    /\ tx[t].pc = "committed" /\ ~tx[t].waited
    /\ tx[t].row.savings_goal_id # tx[s].row.savings_goal_id
    /\ tx[t].row \in savings_transactions
    /\ \E g \in savings_goals :
         /\ g.id = tx[t].row.savings_goal_id
         /\ g.current_amount = NewAdjustment(tx[t].row)
         /\ g.current_amount # 0

\* C25: in every reachable state each savings transaction refers to a stored
\* goal; a DELETE that removes a goal removes the transactions of that goal
\* in the same step, and an INSERT of a transaction for a goal that is not
\* stored is refused and stores nothing.
C25_TransactionsHaveGoals ==
  /\ [](\A t \in savings_transactions : t.savings_goal_id \in Ids(savings_goals))
  /\ [][/\ \A g \in savings_goals : g.id \notin Ids(savings_goals') =>
            \A t \in savings_transactions' : t.savings_goal_id # g.id
        /\ (/\ lastOp'.table = "savings_transactions" /\ lastOp'.op = "INSERT"
            /\ lastOp'.arg \notin Ids(savings_goals)) =>
             /\ lastOp'.status # "ok"
             /\ savings_transactions' = savings_transactions]_vars

\* a user has just deleted a goal of theirs; its transaction t1 went with it,
\* while transaction t2 of the other goal is still stored
C25_Witness ==
  /\ lastOp.table = "savings_goals" /\ lastOp.op = "DELETE"
  /\ lastOp.status = "ok" /\ lastOp.rows = {lastOp.arg}
  /\ lastOp.uid \in Users
  /\ lastOp.arg \notin Ids(savings_goals)
  /\ Ids(savings_transactions) = {"t2"}
  /\ \A t \in savings_transactions : t.savings_goal_id # lastOp.arg

\* ------------------------------------------------------------------ properties: the owner of a row
\* C26: no statement of a caller subject to row-level security changes the
\* user_id of a stored income record, expense record or savings goal; an
\* UPDATE by the owner of the row that assigns another identity to user_id
\* ends in an error and changes nothing.
C26_OwnerIsFixed ==
  [][/\ \A r \in income_records, q \in income_records' :
          r.id = q.id => q.user_id = r.user_id
     /\ \A r \in expense_records, q \in expense_records' :
          r.id = q.id => q.user_id = r.user_id
     /\ \A r \in savings_goals, q \in savings_goals' :
          r.id = q.id => q.user_id = r.user_id
     /\ (lastOp'.op = "UPDATE" /\ ~lastOp'.bypassrls) =>
          LET c == [uid |-> lastOp'.uid, bypassrls |-> FALSE]
              id == lastOp'.arg
          IN \A u \in Users \ {c.uid} :
               LET p == [col |-> "user_id", user_id |-> u, amount |-> 0]
                   q == [col |-> "user_id", name |-> "a", current_amount |-> 0,
                         user_id |-> u]
               IN (\/ /\ lastOp'.table = "income_records"
                      /\ IncomeUpdatable(c, id) # {}
                      /\ UpdateIncome(c, id, p)
                   \/ /\ lastOp'.table = "expense_records"
                      /\ ExpenseUpdatable(c, id) # {}
                      /\ \E e \in ExpensePatches :
                           e.user_id = u /\ UpdateExpense(c, id, e)
                   \/ /\ lastOp'.table = "savings_goals"
                      /\ GoalsUpdatable(c, savings_goals, id) # {}
                      /\ UpdateGoal(c, id, q)) =>
                    /\ lastOp'.status = "rls_violation"
                    /\ UNCHANGED <<income_records, expense_records,
                                   savings_goals>>]_vars

\* the owner of a goal, who also holds an income record, has just been
\* refused an UPDATE of the goal naming it; the goal is still theirs
C26_Witness ==
  /\ lastOp.table = "savings_goals" /\ lastOp.op = "UPDATE"
  /\ lastOp.uid \in Users
  /\ lastOp.status = "rls_violation"
  /\ \E g \in savings_goals : g.id = lastOp.arg /\ g.user_id = lastOp.uid
  /\ \E r \in income_records : r.user_id = lastOp.uid

\* ------------------------------------------------------------------ properties: the role and the metadata
\* C27: two identities created with the same email have profiles with the
\* same role, whatever full_name and role their creations carried in the
\* metadata.
C27_RoleIgnoresMetadata ==
  \A a, b \in auth_users :
    a.email = b.email =>
      \A p, q \in profiles :
        (p.user_id = a.id /\ q.user_id = b.id) => p.role = q.role

\* two identities were created with the same email, one with role admin
\* and one with role user in the metadata, and different names; their
\* profiles have the same role
C27_Witness ==
  \E a, b \in auth_users :
    /\ a.email = b.email /\ a.email = "user@fms.com"
    /\ a.meta_role = "admin" /\ b.meta_role = "user"
    /\ a.full_name # b.full_name
    /\ \E p, q \in profiles :
         p.user_id = a.id /\ q.user_id = b.id /\ p.role = q.role

\* ------------------------------------------------------------------ properties: withdrawals
\* C28 as stated: a withdrawal the owner of a goal inserts, of an amount the
\* column of savings_transactions holds, is accepted whatever the balance of
\* the goal is, and moves the balance down by its amount.
C28_WithdrawalAccepted ==
  [][(/\ lastOp'.table = "savings_transactions" /\ lastOp'.op = "INSERT"
      /\ ~lastOp'.bypassrls
      /\ OwnsGoal(lastOp'.uid, lastOp'.arg)
      /\ Cardinality(savings_transactions) < MaxTxns) =>
       \A a \in {x \in AmountInputs : FitsNumeric(RoundNumeric(x))} :
         InsertTransaction([uid |-> lastOp'.uid, bypassrls |-> FALSE],
                           NewTxnId(savings_transactions), lastOp'.arg, a,
                           "withdrawal") =>
           /\ lastOp'.status = "ok"
           /\ \A g \in savings_goals : g.id = lastOp'.arg =>
                \E h \in savings_goals' :
                  /\ h.id = g.id
                  /\ h.current_amount = g.current_amount - RoundNumeric(a)]_vars

\* C28, amended: the withdrawal is accepted exactly when its amount, rounded
\* to the scale of the column, fits savings_transactions.amount and the
\* balance it leaves fits savings_goals.current_amount (both DECIMAL(15,2) in
\* the schema), and otherwise it ends in a numeric overflow; zero is no
\* bound, so an accepted withdrawal above the balance leaves current_amount
\* negative; a refused one changes neither table.
C28_WithdrawalFits ==
  /\ [](Cardinality(savings_transactions) < MaxTxns =>
          \A g \in savings_goals, a \in AmountInputs :
            g.user_id \in Users =>
              InsertTransactionStatus(
                [uid |-> g.user_id, bypassrls |-> FALSE],
                TransactionRow(NewTxnId(savings_transactions), g.id, a,
                               "withdrawal"),
                savings_goals, savings_transactions)
              = IF /\ FitsNumeric(RoundNumeric(a))
                   /\ FitsNumeric(g.current_amount - RoundNumeric(a))
                  THEN "ok" ELSE "numeric_overflow")
  /\ [][(/\ lastOp'.table = "savings_transactions" /\ lastOp'.op = "INSERT"
         /\ ~lastOp'.bypassrls
         /\ OwnsGoal(lastOp'.uid, lastOp'.arg)) =>
          /\ lastOp'.status = "ok" =>
               \A t \in savings_transactions' \ savings_transactions :
                 t.transaction_type = "withdrawal" =>
                   \A g \in savings_goals : g.id = lastOp'.arg =>
                     \E h \in savings_goals' :
                       /\ h.id = g.id
                       /\ h.current_amount = g.current_amount - t.amount
          /\ lastOp'.status # "ok" =>
               /\ lastOp'.status = "numeric_overflow"
               /\ UNCHANGED <<savings_goals, savings_transactions>>]_vars

\* the owner of a goal whose only transaction is a withdrawal of a positive
\* amount has just inserted it: the balance went from 0 below zero
C28_Witness ==
  /\ lastOp.table = "savings_transactions" /\ lastOp.op = "INSERT"
  /\ lastOp.status = "ok" /\ ~lastOp.bypassrls
  /\ OwnsGoal(lastOp.uid, lastOp.arg)
  /\ \E t \in savings_transactions :
       /\ lastOp.rows = {t.id}
       /\ t.transaction_type = "withdrawal" /\ t.amount > 0
       /\ \A x \in savings_transactions :
            x.savings_goal_id = t.savings_goal_id => x = t
       /\ \E g \in savings_goals :
            g.id = lastOp.arg /\ g.current_amount = -t.amount

\* ------------------------------------------------------------------ the browser: every event
\* One browser: the authentication context takes any value, any path is
\* visited, and on the income page the dialog is opened (the "Add Income"
\* button resets the form), closed, filled in, submitted, and records are
\* edited and deleted; the database runs the calls under way in any order,
\* and each function goes on after its await when its call is answered.
ClientNext ==
  \/ \E u \in Users \cup {NULL}, l \in BOOLEAN : AuthStateChange(u, l)
  \/ \E p \in Paths : NavigateTo(p)
  \/ /\ view = "Income"
     /\ page' = [page EXCEPT !.editingRecord = NoRecord, !.formData = EmptyForm,
                             !.isDialogOpen = TRUE]
     /\ UNCHANGED <<requests, outsidePage>>
  \/ /\ view = "Income" /\ page.isDialogOpen
     /\ page' = [page EXCEPT !.isDialogOpen = FALSE]
     /\ UNCHANGED <<requests, outsidePage>>
  \/ \E t \in AmountTexts, src \in SourceTexts :
       /\ view = "Income" /\ page.isDialogOpen
       /\ page' = [page EXCEPT !.formData = [amount |-> t, source |-> src]]
       /\ UNCHANGED <<requests, outsidePage>>
  \/ \E r \in page.incomeRecords : handleEdit(r)
  \/ handleSubmit
  \/ \E id \in RecordIds : handleDelete(id)
  \/ \E i \in Slots : Execute(i)
  \/ \E i \in Slots : fetchIncomeRecordsAwaited(i)
  \/ \E i \in Slots : handleSubmitAwaited(i)
  \/ \E i \in Slots : handleDeleteAwaited(i)

SpecClient == Init /\ [][ClientNext]_vars

\* The router alone: the context changes, any path is visited, and the
\* fetches the income page starts when it is mounted are answered.
RoutesNext ==
  \/ \E u \in Users \cup {NULL}, l \in BOOLEAN : AuthStateChange(u, l)
  \/ \E p \in Paths : NavigateTo(p)
  \/ \E i \in Slots : Execute(i)
  \/ \E i \in Slots : fetchIncomeRecordsAwaited(i)

SpecRoutes == Init /\ [][RoutesNext]_vars

\* C29: a protected page is rendered only while a user is authenticated and
\* the session is not loading; at the path of a protected page the
\* placeholder is rendered while the session is loading, and once loading
\* has ended with no user the location is /auth or a path outside the
\* protected pages.
C29_ProtectedPagesNeedUser ==
  /\ view \in {Page[p] : p \in DOMAIN Page} =>
       auth.user # NULL /\ ~auth.loading
  /\ (auth.loading /\ location \in DOMAIN Page) => view = "Loading"
  /\ (~auth.loading /\ auth.user = NULL) =>
       /\ location \notin DOMAIN Page
       /\ view \in {"Auth", "NotFound"}

\* a user whose income page had fetched its records is signed out: the
\* session is not loading, nobody is authenticated, and the router is at
\* /auth
C29_Witness ==
  /\ lastOp.table = "income_records" /\ lastOp.uid \in Users
  /\ auth = [user |-> NULL, loading |-> FALSE]
  /\ location = "/auth" /\ view = "Auth"

\* C30: a submit with an empty amount or source sends nothing to the
\* database and changes nothing; with both filled in it sends one INSERT or
\* UPDATE and leaves the page as it is until the answer; when the answer
\* arrives at the mounted page, handleSubmit closes the dialog, clears
\* editingRecord, resets the form and starts a fetch exactly when the
\* database reported no error: on an error the page is left as it is and no
\* fetch starts; and a statement that ended in an error left the table as
\* it was.
C30_SubmitOutcome ==
  [][/\ handleSubmit =>
          LET valid == page.formData.amount # "" /\ page.formData.source # ""
          IN /\ ~valid => UNCHANGED vars
             /\ valid =>
                  /\ UNCHANGED <<page, dbVars, lastOp>>
                  /\ \E i \in Slots :
                       /\ requests[i] = NoRequest
                       /\ requests'[i].op = IF page.editingRecord = NoRecord
                                              THEN "INSERT" ELSE "UPDATE"
                       /\ requests'[i].phase = "sent"
                       /\ requests'[i].uid = auth.user
                       /\ \A j \in Slots \ {i} : requests'[j] = requests[j]
     /\ \A i \in Slots :
          (requests[i].alive /\ handleSubmitAwaited(i)) =>
            IF requests[i].status = "ok"
              THEN /\ ~page'.isDialogOpen
                   /\ page'.editingRecord = NoRecord
                   /\ page'.formData = EmptyForm
                   /\ page'.loading
                   /\ \E j \in Slots : /\ requests'[j].op = "SELECT"
                                       /\ requests'[j] # requests[j]
            ELSE /\ page' = page
                 /\ \A j \in Slots : requests'[j].op = "SELECT" =>
                                       requests'[j] = requests[j]
     /\ \A i \in Slots :
          (/\ requests[i].op \in {"INSERT", "UPDATE"}
           /\ requests[i].phase = "sent"
           /\ requests'[i].phase = "done"
           /\ requests'[i].status # "ok") =>
            income_records' = income_records]_vars

\* the update of a record has been refused by the database and the answer
\* has reached the page: no call is under way, and the dialog is still open
\* on that record with the text that was sent
C30_Witness ==
  /\ view = "Income"
  /\ lastOp.table = "income_records" /\ lastOp.op = "UPDATE"
  /\ lastOp.status = "numeric_overflow"
  /\ \A i \in Slots : requests[i] = NoRequest
  /\ page.isDialogOpen
  /\ page.editingRecord # NoRecord
  /\ page.editingRecord \in income_records
  /\ page.formData = [amount |-> "1e13", source |-> SourceInput]

====
